---- MODULE Spec2Model ----
(***************************************************************************)
(* IsentaDB: the single-file page store (storage.rs), the persistence core *)
(* (database.rs), the in-memory catalog and query engine (engine.rs) and   *)
(* the literal handling of the parser (parser.rs).                         *)
(*                                                                         *)
(* The file is a flat sequence of bytes.  Strings are sequences of ASCII   *)
(* codes, so as_bytes() is the identity on them and every page is decoded  *)
(* byte by byte exactly as the code decodes it.                            *)
(*                                                                         *)
(* PAGE_SIZE is 4096 in storage.rs; every offset computation of the code   *)
(* is relative to it (page.data.len()), so the model keeps the arithmetic  *)
(* and scales the page down to keep page images small.                     *)
(***************************************************************************)
EXTENDS Integers, Sequences, FiniteSets, TLC

PAGE_SIZE == 64

HEADER_PAGE_ID == 0
DB_VERSION == 1
TYPE_NULL == 0
TYPE_INT == 1
TYPE_TEXT == 2
MaxNameLen == 255

\* 0x4953454E54414442 as to_le_bytes() lays it out
MAGIC_NUMBER == <<66, 68, 65, 84, 78, 69, 83, 73>>

(***************************************************************************)
(* Byte codec                                                              *)
(***************************************************************************)
\* a function written [i \in 1..n |-> e] is kept as an explicit tuple
Tup(s) == SubSeq(s, 1, Len(s))

\* Only({e : x \in {v}}) is e with x bound to the value of v, computed once
Only(S) == CHOOSE x \in S : TRUE

Zeros(n) == Tup([i \in 1..n |-> 0])

Pow256(k) == IF k = 0 THEN 1 ELSE IF k = 1 THEN 256 ELSE IF k = 2 THEN 65536 ELSE 16777216

\* a decoded field of 2^30 or more is clamped to 2^30: it is only compared
\* with lengths, counts and page ids, all far below, and sums with an
\* offset stay inside TLC's integers
Saturated == 64 * 16777216

\* data[off .. off+n) with the code's 0-based offsets
Slice(data, off, n) == SubSeq(data, off + 1, off + n)

\* data[off .. off+len(bytes)).copy_from_slice(bytes)
Put(data, off, bytes) ==
    SubSeq(data, 1, off) \o bytes \o SubSeq(data, off + Len(bytes) + 1, Len(data))

\* (v as uN).to_le_bytes() for 0 <= v < 2^31
LE(v, n) == Tup([i \in 1..n |-> IF i <= 4 THEN (v \div Pow256(i - 1)) % 256 ELSE 0])

\* u32::from_le_bytes(data[off..off+4])
U32At(data, off) ==
    IF data[off + 4] >= 64 THEN Saturated
    ELSE data[off + 1] + 256 * data[off + 2] + 65536 * data[off + 3] + 16777216 * data[off + 4]

\* u64::from_le_bytes(data[off..off+8])
U64At(data, off) ==
    IF Slice(data, off + 4, 4) # Zeros(4) THEN Saturated ELSE U32At(data, off)

\* String::from_utf8 succeeds; the inputs are ASCII, and no byte >= 0x80 that
\* the encoders can produce (0xFF.. of a negative i64) starts or continues a
\* valid multi-byte sequence after an ASCII byte
Utf8Valid(bytes) == \A i \in 1..Len(bytes) : bytes[i] < 128

LowerChar(c) == IF c >= 65 /\ c <= 90 THEN c + 32 ELSE c
UpperChar(c) == IF c >= 97 /\ c <= 122 THEN c - 32 ELSE c
\* str::to_lowercase / to_uppercase on ASCII text
ToLower(s) == Tup([i \in 1..Len(s) |-> LowerChar(s[i])])
ToUpper(s) == Tup([i \in 1..Len(s) |-> UpperChar(s[i])])

(***************************************************************************)
(* i64 text conversions.  An i64 is carried as its 8 to_le_bytes().        *)
(***************************************************************************)
IsDigit(c) == c >= 48 /\ c <= 57

RECURSIVE DigitsValue(_, _, _)
DigitsValue(s, i, acc) ==
    IF i > Len(s) THEN acc ELSE DigitsValue(s, i + 1, acc * 10 + (s[i] - 48))

RECURSIVE DecString(_)
\* u64 -> decimal text
DecString(n) ==
    IF n < 10 THEN <<48 + n>> ELSE Append(DecString(n \div 10), 48 + (n % 10))

\* two's complement of a small integer
I64Bytes(v) ==
    IF v >= 0 THEN LE(v, 8)
    ELSE LET m == LE(-v - 1, 8) IN Tup([i \in 1..8 |-> 255 - m[i]])

\* the bytes of an i64 TLC's integers cannot hold are kept behind
\* the code 256, which no text contains: distinct integers stay distinct
BigMarker == <<256>>

\* i64::to_string of from_le_bytes(b)
I64ToString(b) ==
    IF SubSeq(b, 5, 8) = Zeros(4) /\ b[4] < 64
    THEN DecString(U32At(b, 0))
    ELSE IF SubSeq(b, 5, 8) = <<255, 255, 255, 255>> /\ b[4] >= 192
    THEN LET m == Tup([i \in 1..8 |-> 255 - b[i]]) IN <<45>> \o DecString(U32At(m, 0) + 1)
    ELSE BigMarker \o b

MaxDigits == 9

\* str::parse::<i64>: optional sign, at least one digit, digits only
ParseI64(s) ==
    IF Len(s) = 9 /\ s[1] = 256 THEN [ok |-> TRUE, bytes |-> SubSeq(s, 2, 9)]
    ELSE
    LET signed == Len(s) > 0 /\ (s[1] = 43 \/ s[1] = 45)
        digits == IF signed THEN Tail(s) ELSE s
    IN  IF Len(digits) = 0 \/ Len(digits) > MaxDigits
           \/ \E i \in 1..Len(digits) : ~IsDigit(digits[i])
        THEN [ok |-> FALSE, bytes |-> <<>>]
        ELSE LET v == DigitsValue(digits, 1, 0) IN
             [ok |-> TRUE, bytes |-> I64Bytes(IF signed /\ s[1] = 45 THEN -v ELSE v)]

(***************************************************************************)
(* storage.rs: StorageEngine over the flat file                            *)
(***************************************************************************)
\* Page::new(id).data
NewPage == Zeros(PAGE_SIZE)

read_page(f, page_id) ==
    IF page_id > Len(f) \div PAGE_SIZE \/ page_id * PAGE_SIZE >= Len(f)
    THEN NewPage
    ELSE LET offset == page_id * PAGE_SIZE IN
         IF offset + PAGE_SIZE <= Len(f) THEN SubSeq(f, offset + 1, offset + PAGE_SIZE)
         ELSE SubSeq(f, offset + 1, Len(f)) \o Zeros(offset + PAGE_SIZE - Len(f))

\* a write that stops one byte short of the page
write_page_short(f, page_id, data) ==
    LET offset == page_id * PAGE_SIZE IN
    IF offset >= Len(f) THEN f \o Zeros(offset - Len(f)) \o SubSeq(data, 1, PAGE_SIZE - 1)
    ELSE SubSeq(f, 1, offset) \o data \o SubSeq(f, offset + PAGE_SIZE + 1, Len(f))

\* seek to id * PAGE_SIZE and write_all: a gap past end-of-file reads as zeros
write_page(f, page_id, data) ==
    LET offset == page_id * PAGE_SIZE IN
    IF offset >= Len(f) THEN f \o Zeros(offset - Len(f)) \o data
    ELSE SubSeq(f, 1, offset) \o data \o SubSeq(f, offset + PAGE_SIZE + 1, Len(f))

\* the id allocate_page picks
next_page_id(f) == Len(f) \div PAGE_SIZE

allocate_page(f) ==
    [id |-> next_page_id(f), file |-> write_page(f, next_page_id(f), NewPage)]

(***************************************************************************)
(* engine.rs: Catalog                                                      *)
(***************************************************************************)
\* Catalog::new().tables
EmptyCatalog == <<>>

\* self.tables.iter().any(|t| t.name == name)
HasTableExact(tables, name) == \E i \in 1..Len(tables) : tables[i].name = name

\* self.tables.iter().any(|t| t.name.to_lowercase() == name.to_lowercase())
HasTableFolded(tables, name) ==
    \E i \in 1..Len(tables) : ToLower(tables[i].name) = ToLower(name)

\* index of the table find_table / find_table_mut return, 0 for None
find_table(tables, name) ==
    IF HasTableFolded(tables, name)
    THEN CHOOSE i \in 1..Len(tables) :
            /\ ToLower(tables[i].name) = ToLower(name)
            /\ \A j \in 1..(i - 1) : ToLower(tables[j].name) # ToLower(name)
    ELSE 0

add_table(tables, table) ==
    IF HasTableFolded(tables, table.name) THEN tables ELSE Append(tables, table)

RECURSIVE AddTables(_, _)
\* for table in tables { catalog.add_table(table) }
AddTables(catalog, tables) ==
    IF tables = <<>> THEN catalog
    ELSE AddTables(add_table(catalog, Head(tables)), Tail(tables))

(***************************************************************************)
(* database.rs: open and load                                              *)
(***************************************************************************)
\* a fresh header that counts one table
FreshHeaderCountingOne ==
    Put(Put(Put(Put(NewPage, 0, MAGIC_NUMBER), 8, LE(DB_VERSION, 4)), 12, LE(0, 8)), 20, LE(1, 4))

\* the header page initialize_if_needed formats
FreshHeader ==
    Put(Put(Put(Put(NewPage, 0, MAGIC_NUMBER), 8, LE(DB_VERSION, 4)), 12, LE(0, 8)), 20, LE(0, 4))

\* as initialize_if_needed below, formatting a fresh header over a magic
\* that is neither zero nor the expected one
initialize_overwriting(f) ==
    IF Len(f) = 0
    THEN [ok |-> TRUE, file |-> write_page(f, HEADER_PAGE_ID, FreshHeader), warned |-> FALSE]
    ELSE LET magic == Slice(read_page(f, HEADER_PAGE_ID), 0, 8) IN
         IF magic # Zeros(8) /\ magic # MAGIC_NUMBER
         THEN [ok |-> TRUE, file |-> write_page(f, HEADER_PAGE_ID, FreshHeader),
               warned |-> FALSE]
         ELSE [ok |-> TRUE, file |-> f, warned |-> (magic = Zeros(8))]

initialize_if_needed(f) ==
    IF Len(f) = 0
    THEN [ok |-> TRUE, file |-> write_page(f, HEADER_PAGE_ID, FreshHeader), warned |-> FALSE]
    ELSE LET magic == Slice(read_page(f, HEADER_PAGE_ID), 0, 8) IN
         IF magic # Zeros(8) /\ magic # MAGIC_NUMBER
         THEN [ok |-> FALSE, file |-> f, warned |-> FALSE]
         ELSE [ok |-> TRUE, file |-> f, warned |-> (magic = Zeros(8))]

RECURSIVE ReadRowValues(_, _, _, _, _)
\* the per-column loop of one row; a break leaves the values short
ReadRowValues(page, offset, columns, k, vals) ==
    IF k > Len(columns) \/ offset + 1 > PAGE_SIZE
    THEN [kind |-> "ok", offset |-> offset, values |-> vals]
    ELSE
    LET value_type == page[offset + 1]
        o1 == offset + 1
    IN  IF value_type = TYPE_NULL
        THEN ReadRowValues(page, o1, columns, k + 1, Append(vals, <<>>))
        ELSE IF value_type = TYPE_INT
        THEN IF o1 + 8 > PAGE_SIZE
             THEN [kind |-> "ok", offset |-> o1, values |-> vals]
             ELSE ReadRowValues(page, o1 + 8, columns, k + 1,
                                Append(vals, I64ToString(Slice(page, o1, 8))))
        \* TYPE_TEXT and the legacy branch read the same way
        ELSE IF o1 + 4 > PAGE_SIZE
        THEN [kind |-> "ok", offset |-> o1, values |-> vals]
        ELSE LET text_len == U32At(page, o1)
                 o2 == o1 + 4
             IN  IF text_len = 0
                 THEN ReadRowValues(page, o2, columns, k + 1, Append(vals, <<>>))
                 ELSE IF o2 + text_len > PAGE_SIZE
                 THEN [kind |-> "ok", offset |-> o2, values |-> vals]
                 ELSE IF ~Utf8Valid(Slice(page, o2, text_len))
                 THEN [kind |-> "err", offset |-> o2, values |-> vals]
                 ELSE ReadRowValues(page, o2 + text_len, columns, k + 1,
                                    Append(vals, Slice(page, o2, text_len)))

RECURSIVE ReadRows(_, _, _, _, _)
\* for _ in 0..num_rows: a row is pushed only with one value per column.
\* An iteration that neither moves the offset nor pushes a row repeats
\* unchanged for the rest of the count, so the loop result is known there.
ReadRows(page, offset, n, columns, rows) ==
    IF n = 0 THEN [kind |-> "ok", offset |-> offset, rows |-> rows]
    ELSE
    Only({
        IF r.kind = "err" THEN [kind |-> "err", offset |-> offset, rows |-> rows]
        ELSE IF Len(r.values) = Len(columns)
        THEN ReadRows(page, r.offset, n - 1, columns, Append(rows, r.values))
        ELSE IF r.offset = offset
        THEN [kind |-> "ok", offset |-> offset, rows |-> rows]
        ELSE ReadRows(page, r.offset, n - 1, columns, rows)
      : r \in {ReadRowValues(page, offset, columns, 1, <<>>)} })

RECURSIVE LoadRowPages(_, _, _, _, _)
\* the page loop of load_rows_from_pages; it keeps no visited set, so a
\* page met a second time is met forever ("hang")
LoadRowPages(f, current_page_id, columns, visited, rows) ==
    IF current_page_id \in visited THEN [kind |-> "hang", rows |-> rows]
    ELSE
    Only({
        IF page = NewPage \/ U32At(page, 0) = 0 THEN [kind |-> "ok", rows |-> rows]
        ELSE Only({
            IF rr.kind = "err" THEN [kind |-> "err", rows |-> rows]
            ELSE IF rr.offset + 8 > PAGE_SIZE THEN [kind |-> "ok", rows |-> rr.rows]
            ELSE IF U64At(page, rr.offset) = 0 THEN [kind |-> "ok", rows |-> rr.rows]
            ELSE LoadRowPages(f, U64At(page, rr.offset), columns,
                              visited \cup {current_page_id}, rr.rows)
          : rr \in {ReadRows(page, 4, U32At(page, 0), columns, rows)} })
      : page \in {read_page(f, current_page_id)} })

load_rows_from_pages(f, start_page_id, columns) ==
    LoadRowPages(f, start_page_id, columns, {}, <<>>)

RECURSIVE ReadColumns(_, _, _, _)
\* for _ in 0..num_cols of read_table_from_page
ReadColumns(page, offset, n, cols) ==
    IF n = 0 THEN [kind |-> "ok", offset |-> offset, columns |-> cols]
    ELSE IF offset + 4 > PAGE_SIZE THEN [kind |-> "none", offset |-> offset, columns |-> cols]
    ELSE
    LET col_name_len == U32At(page, offset)
        o1 == offset + 4
    IN  IF o1 + col_name_len > PAGE_SIZE
        THEN [kind |-> "none", offset |-> o1, columns |-> cols]
        ELSE IF ~Utf8Valid(Slice(page, o1, col_name_len))
        THEN [kind |-> "err", offset |-> o1, columns |-> cols]
        ELSE
        LET o2 == o1 + col_name_len IN
        IF o2 + 4 > PAGE_SIZE THEN [kind |-> "none", offset |-> o2, columns |-> cols]
        ELSE
        LET type_len == U32At(page, o2)
            o3 == o2 + 4
        IN  IF o3 + type_len > PAGE_SIZE
            THEN [kind |-> "none", offset |-> o3, columns |-> cols]
            ELSE IF ~Utf8Valid(Slice(page, o3, type_len))
            THEN [kind |-> "err", offset |-> o3, columns |-> cols]
            ELSE ReadColumns(page, o3 + type_len, n - 1,
                             Append(cols, [name |-> Slice(page, o1, col_name_len),
                                           data_type |-> Slice(page, o3, type_len)]))

NoTable == [name |-> <<>>, columns |-> <<>>, rows |-> <<>>]

\* Ok(Some((table, next_page))) / Ok(None) / Err, or no return at all
NoneRead == [kind |-> "none", table |-> NoTable, next |-> 0]
ErrRead == [kind |-> "err", table |-> NoTable, next |-> 0]

\* the tail of read_table_from_page: data_page_id, next_schema_page_id, rows
ReadTableTail(f, page, name, rc) ==
    IF rc.kind = "err" THEN ErrRead
    ELSE IF rc.kind = "none" THEN NoneRead
    ELSE IF rc.offset + 8 > PAGE_SIZE THEN NoneRead
    ELSE IF rc.offset + 8 + 8 > PAGE_SIZE THEN NoneRead
    ELSE Only({
        IF lr.kind # "ok" THEN [kind |-> lr.kind, table |-> NoTable, next |-> 0]
        ELSE [kind |-> "some",
              table |-> [name |-> name, columns |-> rc.columns, rows |-> lr.rows],
              next |-> U64At(page, rc.offset + 8)]
      : lr \in {IF U64At(page, rc.offset) > 0
                THEN load_rows_from_pages(f, U64At(page, rc.offset), rc.columns)
                ELSE [kind |-> "ok", rows |-> <<>>]} })

\* Ok(Some((table, next_page))) / Ok(None) / Err, or no return at all
read_table_from_page(f, page_id) ==
    Only({
        IF page = NewPage THEN NoneRead
        ELSE IF name_len = 0 \/ name_len > MaxNameLen \/ 4 + name_len > PAGE_SIZE THEN NoneRead
        ELSE IF ~Utf8Valid(Slice(page, 4, name_len)) THEN ErrRead
        ELSE IF 4 + name_len + 4 > PAGE_SIZE THEN NoneRead
        ELSE ReadTableTail(f, page, Slice(page, 4, name_len),
                           ReadColumns(page, 4 + name_len + 4, U32At(page, 4 + name_len), <<>>))
      : page \in {read_page(f, page_id)}, name_len \in {U32At(read_page(f, page_id), 0)} })

\* the loop guard without its count bound: the chain alone ends the loop
KeepLoadingWholeChain(tables_loaded, num_tables, current_page_id) ==
    current_page_id # 0

\* while tables_loaded < num_tables && current_page_id != 0
KeepLoading(tables_loaded, num_tables, current_page_id) ==
    tables_loaded < num_tables /\ current_page_id # 0

\* a loader that never recognises a page it has already visited
NeverRevisited(pages_visited, current_page_id) == FALSE

\* pages_visited.contains(&current_page_id)
Revisited(pages_visited, current_page_id) == current_page_id \in pages_visited

RECURSIVE LoadTables(_, _, _, _, _, _)
LoadTables(f, current_page_id, tables_loaded, num_tables, pages_visited, tables) ==
    IF ~KeepLoading(tables_loaded, num_tables, current_page_id)
    THEN [kind |-> "ok", tables |-> tables, loaded |-> tables_loaded, warned |-> FALSE]
    ELSE IF Revisited(pages_visited, current_page_id)
    THEN [kind |-> "ok", tables |-> tables, loaded |-> tables_loaded, warned |-> TRUE]
    ELSE
    Only({
        IF r.kind = "some"
        THEN LoadTables(f, r.next, tables_loaded + 1, num_tables,
                        pages_visited \cup {current_page_id}, Append(tables, r.table))
        ELSE IF r.kind = "none"
        THEN [kind |-> "ok", tables |-> tables, loaded |-> tables_loaded, warned |-> TRUE]
        ELSE [kind |-> r.kind, tables |-> tables, loaded |-> tables_loaded, warned |-> FALSE]
      : r \in {read_table_from_page(f, current_page_id)} })

\* a repair that resets the count instead of writing the number decoded
RepairedCountReset(tables_loaded, num_tables) == 0

\* the count the repair at the end of load_catalog writes
RepairedCount(tables_loaded, num_tables) == tables_loaded

\* a header left with its schema_root
KeepSchemaRoot(header) == header

\* header.data[12..20].copy_from_slice(&0u64.to_le_bytes())
ZeroSchemaRoot(header) == Put(header, 12, LE(0, 8))

\* kind "ok": Ok(catalog); "err": Err; "hang": the call never returns
load_catalog(f) ==
    LET header == read_page(f, HEADER_PAGE_ID)
        num_tables == U32At(header, 20)
        schema_root == U64At(header, 12)
    IN
    IF num_tables = 0
    THEN [kind |-> "ok", catalog |-> EmptyCatalog, warned |-> FALSE,
          num_tables |-> num_tables, schema_root |-> schema_root,
          file |-> IF schema_root # 0
                   THEN write_page(f, HEADER_PAGE_ID, ZeroSchemaRoot(header))
                   ELSE f]
    ELSE IF schema_root = 0
    THEN [kind |-> "ok", catalog |-> EmptyCatalog, warned |-> FALSE,
          num_tables |-> num_tables, schema_root |-> schema_root,
          file |-> write_page(f, HEADER_PAGE_ID, Put(header, 20, LE(0, 4)))]
    ELSE
    Only({
        IF lt.kind # "ok"
        THEN [kind |-> lt.kind, catalog |-> EmptyCatalog, warned |-> FALSE,
              num_tables |-> num_tables, schema_root |-> schema_root, file |-> f]
        ELSE [kind |-> "ok", catalog |-> AddTables(EmptyCatalog, lt.tables),
              num_tables |-> num_tables, schema_root |-> schema_root,
              warned |-> (lt.warned \/ lt.loaded # num_tables),
              file |-> IF lt.loaded # num_tables
                       THEN write_page(f, HEADER_PAGE_ID,
                                       Put(header, 20, LE(RepairedCount(lt.loaded, num_tables), 4)))
                       ELSE f]
      : lt \in {LoadTables(f, schema_root, 0, num_tables, {}, <<>>)} })

(***************************************************************************)
(* database.rs: row rewrite                                                *)
(***************************************************************************)
\* a writer for which only INTEGER columns hold integers
IsIntTypeIntegerOnly(col_type) == col_type = <<73, 78, 84, 69, 71, 69, 82>>

IsIntType(col_type) ==
    col_type = <<73, 78, 84>> \/ col_type = <<73, 78, 84, 69, 71, 69, 82>>

RECURSIVE WriteRowValues(_, _, _, _, _)
\* for (value, col) in row.values.iter().zip(columns.iter()); a break
\* returns with the tag byte already stored and the offset past it
WriteRowValues(page, offset, values, columns, k) ==
    IF k > Len(values) \/ k > Len(columns) \/ offset + 1 > PAGE_SIZE
    THEN [page |-> page, offset |-> offset]
    ELSE
    LET value == values[k]
        col_type == ToUpper(columns[k].data_type)
        o1 == offset + 1
        asText == IF o1 + 4 + Len(value) > PAGE_SIZE
                  THEN [page |-> Put(page, offset, <<TYPE_TEXT>>), offset |-> o1]
                  ELSE WriteRowValues(
                         Put(Put(Put(page, offset, <<TYPE_TEXT>>), o1, LE(Len(value), 4)),
                             o1 + 4, value),
                         o1 + 4 + Len(value), values, columns, k + 1)
    IN  IF value = <<>>
        THEN WriteRowValues(Put(page, offset, <<TYPE_NULL>>), o1, values, columns, k + 1)
        ELSE IF IsIntType(col_type) /\ ParseI64(value).ok
        THEN IF o1 + 8 > PAGE_SIZE
             THEN [page |-> Put(page, offset, <<TYPE_INT>>), offset |-> o1]
             ELSE WriteRowValues(
                    Put(Put(page, offset, <<TYPE_INT>>), o1, ParseI64(value).bytes),
                    o1 + 8, values, columns, k + 1)
        ELSE asText

\* "Check if we successfully wrote the entire row"
RowWritten(row, columns, offset) ==
    Len(row) = Len(columns) /\ offset <= PAGE_SIZE - 8

RECURSIVE WriteRows(_, _, _, _, _)
\* for row in rows: stops at the first row that is not counted as written
WriteRows(page, offset, rows, columns, rows_written) ==
    IF rows_written = Len(rows)
    THEN [page |-> page, offset |-> offset, rows_written |-> rows_written]
    ELSE
    Only({
        IF RowWritten(rows[rows_written + 1], columns, w.offset)
        THEN WriteRows(w.page, w.offset, rows, columns, rows_written + 1)
        ELSE [page |-> w.page, offset |-> offset, rows_written |-> rows_written]
      : w \in {WriteRowValues(page, offset, rows[rows_written + 1], columns, 1)} })

RECURSIVE save_rows_to_pages(_, _, _, _)
\* the page a holds the rows w counted; the rest goes to a fresh chain
SaveRowPage(a, w, rows, columns) ==
    IF Len(rows) > w.rows_written
    THEN IF w.rows_written = 0
         THEN [kind |-> "overflow", file |-> a.file, id |-> a.id]
         ELSE Only({
             IF next_page.kind # "ok"
             THEN [kind |-> next_page.kind, file |-> next_page.file, id |-> a.id]
             ELSE IF w.offset + 8 > PAGE_SIZE
             THEN [kind |-> "err", file |-> next_page.file, id |-> a.id]
             ELSE [kind |-> "ok", id |-> a.id,
                   file |-> write_page(next_page.file, a.id,
                                       Put(Put(w.page, 0, LE(w.rows_written, 4)),
                                           w.offset, LE(next_page.id, 8)))]
           : next_page \in {save_rows_to_pages(a.file,
                                SubSeq(rows, w.rows_written + 1, Len(rows)), columns, 0)} })
    ELSE IF w.offset + 8 > PAGE_SIZE
    THEN [kind |-> "err", file |-> a.file, id |-> a.id]
    ELSE [kind |-> "ok", id |-> a.id,
          file |-> write_page(a.file, a.id,
                              Put(Put(w.page, 0, LE(w.rows_written, 4)), w.offset, LE(0, 8)))]

\* start_page_id: 0 stands for None (callers pass Some(id) only for id > 0).
\* kind "ok": Ok(page) with page.id = id; "err": Err; "overflow": a page
\* that takes no row recurses on the same rows for ever
save_rows_to_pages(f, rows, columns, start_page_id) ==
    SaveRowPage(IF start_page_id # 0 THEN [id |-> start_page_id, file |-> f]
                ELSE allocate_page(f),
                WriteRows(NewPage, 4, rows, columns, 0), rows, columns)

(***************************************************************************)
(* database.rs: create table                                               *)
(***************************************************************************)
RECURSIVE WriteColumns(_, _, _, _)
\* for col in &table.columns of save_table
WriteColumns(page, offset, columns, k) ==
    IF k > Len(columns) THEN [ok |-> TRUE, page |-> page, offset |-> offset]
    ELSE
    LET col_name == columns[k].name
        data_type == columns[k].data_type
    IN  IF offset + 4 + Len(col_name) > PAGE_SIZE
        THEN [ok |-> FALSE, page |-> page, offset |-> offset]
        ELSE
        LET p1 == Put(Put(page, offset, LE(Len(col_name), 4)), offset + 4, col_name)
            o1 == offset + 4 + Len(col_name)
        IN  IF o1 + 4 + Len(data_type) > PAGE_SIZE
            THEN [ok |-> FALSE, page |-> p1, offset |-> o1]
            ELSE WriteColumns(
                   Put(Put(p1, o1, LE(Len(data_type), 4)), o1 + 4, data_type),
                   o1 + 4 + Len(data_type), columns, k + 1)

\* where save_table looks for the chain's next pointer in an existing page
NextPointerOffsetOnPatch == PAGE_SIZE - 8

RECURSIVE PatchLastSchemaPage(_, _, _, _)
\* "Find the last table in the chain and update its next pointer"
PatchLastSchemaPage(f, current_page_id, new_id, visited) ==
    IF current_page_id \in visited THEN [kind |-> "hang", file |-> f]
    ELSE
    Only({
        IF next_page = 0
        THEN [kind |-> "ok",
              file |-> write_page(f, current_page_id,
                                  Put(read_page(f, current_page_id), PAGE_SIZE - 8,
                                      LE(new_id, 8)))]
        ELSE PatchLastSchemaPage(f, next_page, new_id, visited \cup {current_page_id})
      : next_page \in {U64At(read_page(f, current_page_id), NextPointerOffsetOnPatch)} })

\* "Update the table count (re-read header in case it was modified)"
CountTable(f, schema_page_id) ==
    Only({ write_page(f, HEADER_PAGE_ID,
                      IF U64At(header, 12) = 0
                      THEN Put(Put(header, 20, LE(U32At(header, 20) + 1, 4)),
                               12, LE(schema_page_id, 8))
                      ELSE Put(header, 20, LE(U32At(header, 20) + 1, 4)))
         : header \in {read_page(f, HEADER_PAGE_ID)} })

\* "For new tables, we need to update the schema chain"
ChainSchemaPage(f, schema_page_id) ==
    IF U64At(read_page(f, HEADER_PAGE_ID), 12) = 0
    THEN [kind |-> "ok",
          file |-> write_page(f, HEADER_PAGE_ID,
                              Put(read_page(f, HEADER_PAGE_ID), 12, LE(schema_page_id, 8)))]
    ELSE PatchLastSchemaPage(f, U64At(read_page(f, HEADER_PAGE_ID), 12), schema_page_id, {})

\* save_table from "Write data page ID" on: page and offset are the schema
\* page image and the cursor after the columns, data_page what the row
\* pages returned
SaveSchemaPage(schema_page_id, page, offset, data_page, is_new) ==
    IF data_page.kind # "ok" THEN [kind |-> data_page.kind, file |-> data_page.file]
    ELSE IF offset + 8 > PAGE_SIZE THEN [kind |-> "err", file |-> data_page.file]
    ELSE IF ~is_new
    THEN IF offset + 8 + 8 > PAGE_SIZE THEN [kind |-> "panic", file |-> data_page.file]
         ELSE [kind |-> "ok",
               file |-> write_page(data_page.file, schema_page_id,
                                   Put(Put(page, offset, LE(data_page.id, 8)),
                                       offset + 8, LE(0, 8)))]
    ELSE Only({
        IF chained.kind # "ok" THEN chained
        ELSE IF offset + 8 + 8 > PAGE_SIZE THEN [kind |-> "panic", file |-> chained.file]
        ELSE [kind |-> "ok",
              file |-> CountTable(write_page(chained.file, schema_page_id,
                                             Put(Put(page, offset, LE(data_page.id, 8)),
                                                 offset + 8, LE(0, 8))),
                                  schema_page_id)]
      : chained \in {ChainSchemaPage(data_page.file, schema_page_id)} })

\* save_table from "Allocate data page for rows" on
SaveDataPages(schema_page, wc, table, is_new) ==
    IF ~wc.ok THEN [kind |-> "err", file |-> schema_page.file]
    ELSE SaveSchemaPage(schema_page.id, wc.page, wc.offset,
                        IF table.rows # <<>>
                        THEN save_rows_to_pages(schema_page.file, table.rows, table.columns, 0)
                        ELSE [kind |-> "ok", id |-> allocate_page(schema_page.file).id,
                              file |-> allocate_page(schema_page.file).file],
                        is_new)

\* kind "ok": Ok(()); "err": Err; "panic": a slice index past the page;
\* "hang" / "overflow": no return
save_table(f, table, is_new) ==
    IF 4 + Len(table.name) > PAGE_SIZE \/ 4 + Len(table.name) + 4 > PAGE_SIZE
    THEN [kind |-> "err", file |-> allocate_page(f).file]
    ELSE SaveDataPages(allocate_page(f),
                       WriteColumns(Put(Put(Put(NewPage, 0, LE(Len(table.name), 4)),
                                            4, table.name),
                                        4 + Len(table.name), LE(Len(table.columns), 4)),
                                    4 + Len(table.name) + 4, table.columns, 1),
                       table, is_new)

(***************************************************************************)
(* database.rs: update table data                                          *)
(***************************************************************************)
RECURSIVE SkipColumns(_, _, _)
\* "Skip columns" of find_table_schema_page: a break leaves the for loop
\* with the offset reached so far
SkipColumns(page, offset, n) ==
    IF n = 0 \/ offset + 4 > PAGE_SIZE THEN offset
    ELSE
    LET o1 == offset + 4 IN
    IF o1 + U32At(page, offset) > PAGE_SIZE THEN o1
    ELSE
    LET o2 == o1 + U32At(page, offset) IN
    IF o2 + 4 > PAGE_SIZE THEN o2
    ELSE
    LET o3 == o2 + 4 IN
    IF o3 + U32At(page, o2) > PAGE_SIZE THEN o3
    ELSE SkipColumns(page, o3 + U32At(page, o2), n - 1)

RECURSIVE FindSchemaPage(_, _, _, _)
\* the loop of find_table_schema_page; it keeps no visited set
FindSchemaPage(f, current_page_id, table_name, visited) ==
    IF current_page_id \in visited THEN [kind |-> "hang", id |-> 0]
    ELSE
    LET page == read_page(f, current_page_id)
        none == [kind |-> "ok", id |-> 0]
    IN
    IF page = NewPage THEN none
    ELSE
    LET name_len == U32At(page, 0) IN
    IF name_len > MaxNameLen \/ 4 + name_len > PAGE_SIZE THEN none
    ELSE IF ~Utf8Valid(Slice(page, 4, name_len)) THEN [kind |-> "err", id |-> 0]
    ELSE IF ToLower(Slice(page, 4, name_len)) = ToLower(table_name)
    THEN [kind |-> "ok", id |-> current_page_id]
    ELSE
    LET o1 == 4 + name_len IN
    IF o1 + 4 > PAGE_SIZE THEN none
    ELSE
    LET offset == SkipColumns(page, o1 + 4, U32At(page, o1)) + 8 IN
    IF offset + 8 > PAGE_SIZE THEN none
    ELSE IF U64At(page, offset) = 0 THEN none
    ELSE FindSchemaPage(f, U64At(page, offset), table_name,
                        visited \cup {current_page_id})

\* id 0 stands for None (page 0 is never returned: the walk starts at a
\* non-zero schema_root and stops at a zero next pointer)
find_table_schema_page(f, table_name) ==
    LET schema_root == U64At(read_page(f, HEADER_PAGE_ID), 12) IN
    IF schema_root = 0 THEN [kind |-> "ok", id |-> 0]
    ELSE FindSchemaPage(f, schema_root, table_name, {})

RECURSIVE SkipColumnsUnchecked(_, _, _)
\* "Skip columns" of update_table_data: no bounds check, a slice past the
\* page panics (-1)
SkipColumnsUnchecked(page, offset, n) ==
    IF n = 0 THEN offset
    ELSE IF offset + 4 > PAGE_SIZE THEN -1
    ELSE
    LET o1 == offset + 4 + U32At(page, offset) IN
    IF o1 + 4 > PAGE_SIZE THEN -1
    ELSE SkipColumnsUnchecked(page, o1 + 4 + U32At(page, o1), n - 1)

\* update_table_data once the schema page of the table is found
RewriteRows(f, table, schema_page_id, schema_page, offset) ==
    IF offset < 0 \/ offset + 8 > PAGE_SIZE THEN [kind |-> "panic", file |-> f]
    ELSE Only({
        IF first_data_page.kind # "ok"
        THEN [kind |-> first_data_page.kind, file |-> first_data_page.file]
        ELSE [kind |-> "ok",
              file |-> write_page(first_data_page.file, schema_page_id,
                                  Put(schema_page, offset, LE(first_data_page.id, 8)))]
      : first_data_page \in {save_rows_to_pages(f, table.rows, table.columns,
                                                U64At(schema_page, offset))} })

update_table_data(f, table) ==
    Only({
        IF found.kind # "ok" THEN [kind |-> found.kind, file |-> f]
        ELSE IF found.id = 0 THEN save_table(f, table, TRUE)
        ELSE Only({
            IF 4 + U32At(schema_page, 0) + 4 > PAGE_SIZE THEN [kind |-> "panic", file |-> f]
            ELSE RewriteRows(f, table, found.id, schema_page,
                             SkipColumnsUnchecked(schema_page, 4 + U32At(schema_page, 0) + 4,
                                                  U32At(schema_page, 4 + U32At(schema_page, 0))))
          : schema_page \in {read_page(f, found.id)} })
      : found \in {find_table_schema_page(f, table.name)} })

(***************************************************************************)
(* database.rs: the write_page calls of a command, one file image each     *)
(***************************************************************************)
RECURSIVE SaveRowsHeadFirst(_, _, _, _, _)
\* a row rewrite that writes each page before the pages that follow it
SaveRowsHeadFirst(f, rows, columns, start_page_id, done) ==
    Only({
        Only({
            IF Len(rows) > w.rows_written
            THEN IF w.rows_written = 0
                 THEN [kind |-> "overflow", files |-> a.files, id |-> a.id]
                 ELSE IF w.offset + 8 > PAGE_SIZE
                 THEN [kind |-> "err", files |-> a.files, id |-> a.id]
                 ELSE Only({
                     Only({ [kind |-> next_page.kind, files |-> next_page.files, id |-> a.id]
                          : next_page \in {SaveRowsHeadFirst(head,
                                               SubSeq(rows, w.rows_written + 1, Len(rows)),
                                               columns, 0, Append(a.files, head))} })
                   : head \in {write_page(a.file, a.id,
                                          Put(Put(w.page, 0, LE(w.rows_written, 4)),
                                              w.offset, LE(next_page_id(a.file), 8)))} })
            ELSE IF w.offset + 8 > PAGE_SIZE
            THEN [kind |-> "err", files |-> a.files, id |-> a.id]
            ELSE [kind |-> "ok", id |-> a.id,
                  files |-> Append(a.files,
                              write_page(a.file, a.id,
                                         Put(Put(w.page, 0, LE(w.rows_written, 4)),
                                             w.offset, LE(0, 8))))]
          : w \in {WriteRows(NewPage, 4, rows, columns, 0)} })
      : a \in {IF start_page_id # 0
               THEN [id |-> start_page_id, file |-> f, files |-> done]
               ELSE [id |-> allocate_page(f).id, file |-> allocate_page(f).file,
                     files |-> Append(done, allocate_page(f).file)]} })

RECURSIVE SaveRowsWrites(_, _, _, _, _)
\* save_rows_to_pages write by write: files holds the file after each
\* write_page, in the order of the calls; done are the writes made before
SaveRowsWrites(f, rows, columns, start_page_id, done) ==
    Only({
        Only({
            IF Len(rows) > w.rows_written
            THEN IF w.rows_written = 0
                 THEN [kind |-> "overflow", files |-> a.files, id |-> a.id]
                 ELSE Only({
                     IF next_page.kind # "ok"
                     THEN [kind |-> next_page.kind, files |-> next_page.files, id |-> a.id]
                     ELSE IF w.offset + 8 > PAGE_SIZE
                     THEN [kind |-> "err", files |-> next_page.files, id |-> a.id]
                     ELSE [kind |-> "ok", id |-> a.id,
                           files |-> Append(next_page.files,
                                       write_page(next_page.files[Len(next_page.files)], a.id,
                                                  Put(Put(w.page, 0, LE(w.rows_written, 4)),
                                                      w.offset, LE(next_page.id, 8))))]
                   : next_page \in {SaveRowsWrites(a.file,
                                        SubSeq(rows, w.rows_written + 1, Len(rows)),
                                        columns, 0, a.files)} })
            ELSE IF w.offset + 8 > PAGE_SIZE
            THEN [kind |-> "err", files |-> a.files, id |-> a.id]
            ELSE [kind |-> "ok", id |-> a.id,
                  files |-> Append(a.files,
                              write_page(a.file, a.id,
                                         Put(Put(w.page, 0, LE(w.rows_written, 4)),
                                             w.offset, LE(0, 8))))]
          : w \in {WriteRows(NewPage, 4, rows, columns, 0)} })
      : a \in {IF start_page_id # 0
               THEN [id |-> start_page_id, file |-> f, files |-> done]
               ELSE [id |-> allocate_page(f).id, file |-> allocate_page(f).file,
                     files |-> Append(done, allocate_page(f).file)]} })

\* save_table(table, true) write by write, from "Write data page ID" on
SaveSchemaWrites(schema_page_id, page, offset, data_page) ==
    IF data_page.kind # "ok" THEN [kind |-> data_page.kind, files |-> data_page.files]
    ELSE IF offset + 8 > PAGE_SIZE THEN [kind |-> "err", files |-> data_page.files]
    ELSE Only({
        IF chained.kind # "ok" THEN [kind |-> chained.kind, files |-> data_page.files]
        ELSE IF offset + 8 + 8 > PAGE_SIZE
        THEN [kind |-> "panic", files |-> Append(data_page.files, chained.file)]
        ELSE Only({ [kind |-> "ok",
                     files |-> data_page.files
                                 \o <<chained.file, saved, CountTable(saved, schema_page_id)>>]
                  : saved \in {write_page(chained.file, schema_page_id,
                                          Put(Put(page, offset, LE(data_page.id, 8)),
                                              offset + 8, LE(0, 8)))} })
      : chained \in {ChainSchemaPage(data_page.files[Len(data_page.files)],
                                     schema_page_id)} })

\* save_table(table, true) write by write
SaveTableWrites(f, table) ==
    Only({
        IF 4 + Len(table.name) > PAGE_SIZE \/ 4 + Len(table.name) + 4 > PAGE_SIZE
        THEN [kind |-> "err", files |-> <<schema_page.file>>]
        ELSE Only({
            IF ~wc.ok THEN [kind |-> "err", files |-> <<schema_page.file>>]
            ELSE SaveSchemaWrites(schema_page.id, wc.page, wc.offset,
                    IF table.rows # <<>>
                    THEN SaveRowsWrites(schema_page.file, table.rows, table.columns, 0,
                                        <<schema_page.file>>)
                    ELSE [kind |-> "ok", id |-> allocate_page(schema_page.file).id,
                          files |-> <<schema_page.file,
                                      allocate_page(schema_page.file).file>>])
          : wc \in {WriteColumns(Put(Put(Put(NewPage, 0, LE(Len(table.name), 4)),
                                         4, table.name),
                                     4 + Len(table.name), LE(Len(table.columns), 4)),
                                 4 + Len(table.name) + 4, table.columns, 1)} })
      : schema_page \in {allocate_page(f)} })

\* update_table_data write by write, once the schema page is found
RewriteRowsWrites(f, table, schema_page_id, schema_page, offset) ==
    IF offset < 0 \/ offset + 8 > PAGE_SIZE THEN [kind |-> "panic", files |-> <<>>]
    ELSE Only({
        IF first_data_page.kind # "ok"
        THEN [kind |-> first_data_page.kind, files |-> first_data_page.files]
        ELSE [kind |-> "ok",
              files |-> Append(first_data_page.files,
                          write_page(first_data_page.files[Len(first_data_page.files)],
                                     schema_page_id,
                                     Put(schema_page, offset, LE(first_data_page.id, 8))))]
      : first_data_page \in {SaveRowsWrites(f, table.rows, table.columns,
                                            U64At(schema_page, offset), <<>>)} })

\* update_table_data write by write
UpdateTableWrites(f, table) ==
    Only({
        IF found.kind # "ok" THEN [kind |-> found.kind, files |-> <<>>]
        ELSE IF found.id = 0 THEN SaveTableWrites(f, table)
        ELSE Only({
            IF 4 + U32At(schema_page, 0) + 4 > PAGE_SIZE THEN [kind |-> "panic", files |-> <<>>]
            ELSE RewriteRowsWrites(f, table, found.id, schema_page,
                     SkipColumnsUnchecked(schema_page, 4 + U32At(schema_page, 0) + 4,
                                          U32At(schema_page, 4 + U32At(schema_page, 0))))
          : schema_page \in {read_page(f, found.id)} })
      : found \in {find_table_schema_page(f, table.name)} })

(***************************************************************************)
(* parser.rs: literals                                                     *)
(***************************************************************************)
RECURSIVE TrimStartMatches(_, _)
TrimStartMatches(s, c) ==
    IF s # <<>> /\ Head(s) = c THEN TrimStartMatches(Tail(s), c) ELSE s

RECURSIVE TrimEndMatches(_, _)
TrimEndMatches(s, c) ==
    IF s # <<>> /\ s[Len(s)] = c THEN TrimEndMatches(SubSeq(s, 1, Len(s) - 1), c) ELSE s

\* str::trim_matches(c)
TrimMatches(s, c) == TrimEndMatches(TrimStartMatches(s, c), c)

\* str::trim() for the one whitespace the literals use, the space
Trim(s) == TrimMatches(s, 32)

\* parse_insert: v.trim().trim_matches('"').trim_matches('"')
InsertValue(v) == TrimMatches(TrimMatches(Trim(v), 34), 34)

\* parse_update: set_parts[1].trim_matches('"').trim_matches('"') after trim
SetValue(v) == TrimMatches(TrimMatches(Trim(v), 34), 34)

\* parse_where_clause: .trim().trim_matches('"').trim_matches('\'')
WhereValue(v) == TrimMatches(TrimMatches(Trim(v), 34), 39)

(***************************************************************************)
(* engine.rs: QueryEngine                                                  *)
(***************************************************************************)
\* the position() lookups by lower-cased column name, 0 for None
ColumnIndex(columns, name) ==
    IF \E i \in 1..Len(columns) : ToLower(columns[i].name) = ToLower(name)
    THEN CHOOSE i \in 1..Len(columns) :
            /\ ToLower(columns[i].name) = ToLower(name)
            /\ \A j \in 1..(i - 1) : ToLower(columns[j].name) # ToLower(name)
    ELSE 0

\* from_le_bytes of a parsed i64 that TLC's integers hold
I64Value(b) ==
    IF b[8] = 0 THEN U64At(b, 0)
    ELSE -(U64At(Tup([i \in 1..8 |-> 255 - b[i]]), 0) + 1)

TypeInteger == <<73, 78, 84, 69, 71, 69, 82>>

\* as IntegerCondition below, with operands that do not parse taken as
\* different from everything
IntegerConditionUnparsedDiffer(r, operator, c) ==
    IF r.ok /\ c.ok
    THEN CASE operator = "=" -> I64Value(r.bytes) = I64Value(c.bytes)
           [] operator = "!=" -> I64Value(r.bytes) # I64Value(c.bytes)
           [] operator = ">" -> I64Value(r.bytes) > I64Value(c.bytes)
           [] operator = "<" -> I64Value(r.bytes) < I64Value(c.bytes)
           [] operator = ">=" -> I64Value(r.bytes) >= I64Value(c.bytes)
           [] operator = "<=" -> I64Value(r.bytes) <= I64Value(c.bytes)
           [] OTHER -> FALSE
    ELSE operator = "!="

\* the match of the INTEGER branch once both operands parsed: r and c are
\* the two parse results
IntegerCondition(r, operator, c) ==
    IF r.ok /\ c.ok
    THEN CASE operator = "=" -> I64Value(r.bytes) = I64Value(c.bytes)
           [] operator = "!=" -> I64Value(r.bytes) # I64Value(c.bytes)
           [] operator = ">" -> I64Value(r.bytes) > I64Value(c.bytes)
           [] operator = "<" -> I64Value(r.bytes) < I64Value(c.bytes)
           [] operator = ">=" -> I64Value(r.bytes) >= I64Value(c.bytes)
           [] operator = "<=" -> I64Value(r.bytes) <= I64Value(c.bytes)
           [] OTHER -> FALSE
    ELSE FALSE

\* Regex::new fails: of the patterns used here, those with a group that is
\* opened and never closed
RegexInvalid(pattern) ==
    /\ \E i \in 1..Len(pattern) : pattern[i] = 40
    /\ \A i \in 1..Len(pattern) : pattern[i] # 41

RECURSIVE LikeMatch(_, _)
\* (?i)^pattern$ after replace('%', ".*").replace('_', "."), for patterns
\* of letters, digits, '%', '_' and '.': '%' is any run, '_' and '.' any
\* one character, every other character itself without regard to case
LikeMatch(pattern, value) ==
    IF pattern = <<>> THEN value = <<>>
    ELSE IF pattern[1] = 37
    THEN LikeMatch(Tail(pattern), value)
         \/ (value # <<>> /\ LikeMatch(pattern, Tail(value)))
    ELSE /\ value # <<>>
         /\ (pattern[1] \in {95, 46} \/ LowerChar(pattern[1]) = LowerChar(value[1]))
         /\ LikeMatch(Tail(pattern), Tail(value))

\* as TextCondition below for "=" and "!=", with regard to case
TextConditionExact(row_value, operator, clause_value) ==
    CASE operator = "=" -> row_value = clause_value
      [] operator = "!=" -> row_value # clause_value
      [] OTHER -> FALSE

\* "Default to TEXT comparison"
TextCondition(row_value, operator, clause_value) ==
    CASE operator = "=" -> ToLower(row_value) = ToLower(clause_value)
      [] operator = "!=" -> ToLower(row_value) # ToLower(clause_value)
      [] operator = "LIKE" ->
            ~RegexInvalid(clause_value) /\ LikeMatch(clause_value, row_value)
      [] operator = "NOT LIKE" ->
            ~RegexInvalid(clause_value) /\ ~LikeMatch(clause_value, row_value)
      [] OTHER -> FALSE

evaluate_condition(row_value, operator, clause_value, column_type) ==
    IF column_type = TypeInteger
    THEN IntegerCondition(ParseI64(row_value), operator, ParseI64(clause_value))
    ELSE TextCondition(row_value, operator, clause_value)

NoWhere == [column |-> <<>>, operator |-> "", value |-> <<>>]

\* a catalog that never finds the name taken
NameNeverTaken(tables, name) == FALSE

\* Catalog::create_table: the duplicate test of the catalog
NameTaken(tables, name) == HasTableExact(tables, name)

\* what a command that persists returns: the catalog it leaves in memory
\* and how the persistence call returned
Persisted(cat, saved) == [kind |-> saved.kind, catalog |-> cat, file |-> saved.file]

\* kind "ok": Ok(()); "err": Err; other kinds as save_table
execute_create_table(cat, f, name, columns) ==
    IF NameTaken(cat, name) THEN [kind |-> "err", catalog |-> cat, file |-> f]
    ELSE Only({ Persisted(cat1, save_table(f, cat1[find_table(cat1, name)], TRUE))
              : cat1 \in {Append(cat, [name |-> name, columns |-> columns, rows |-> <<>>])} })

\* as execute_insert below, without "Validate column count"
execute_insert_any_arity(cat, f, table, values) ==
    Only({
        IF idx = 0 THEN [kind |-> "err", catalog |-> cat, file |-> f]
        ELSE Only({ Persisted(cat1, update_table_data(f, cat1[idx]))
                  : cat1 \in {[cat EXCEPT ![idx].rows = Append(@, values)]} })
      : idx \in {find_table(cat, table)} })

execute_insert(cat, f, table, values) ==
    Only({
        IF idx = 0 THEN [kind |-> "err", catalog |-> cat, file |-> f]
        ELSE IF Len(values) # Len(cat[idx].columns)
        THEN [kind |-> "err", catalog |-> cat, file |-> f]
        ELSE Only({ Persisted(cat1, update_table_data(f, cat1[idx]))
                  : cat1 \in {[cat EXCEPT ![idx].rows = Append(@, values)]} })
      : idx \in {find_table(cat, table)} })

\* the WHERE test of one row as execute_select / execute_update apply it
RowMatches(row, columns, clause) ==
    LET index == ColumnIndex(columns, clause.column) IN
    /\ index <= Len(row)
    /\ evaluate_condition(row[index], clause.operator, clause.value,
                          columns[index].data_type)

\* the rows execute_select keeps, and their projection on the asked columns
SelectedRows(table, where_clause) ==
    IF where_clause = NoWhere THEN table.rows
    ELSE SelectSeq(table.rows, LAMBDA row : RowMatches(row, table.columns, where_clause))

Projected(table, rows, columns) ==
    Tup([r \in 1..Len(rows) |->
           Tup([i \in 1..Len(columns) |->
                  IF ColumnIndex(table.columns, columns[i]) <= Len(rows[r])
                  THEN rows[r][ColumnIndex(table.columns, columns[i])] ELSE <<>>])])

SelectFrom(table, columns, where_clause) ==
    IF where_clause # NoWhere /\ ColumnIndex(table.columns, where_clause.column) = 0
    THEN [kind |-> "err", cols |-> <<>>, rows |-> <<>>]
    ELSE IF \E i \in 1..Len(columns) : columns[i] = <<42>>
    THEN [kind |-> "ok", rows |-> SelectedRows(table, where_clause),
          cols |-> Tup([i \in 1..Len(table.columns) |-> table.columns[i].name])]
    ELSE IF \E i \in 1..Len(columns) : ColumnIndex(table.columns, columns[i]) = 0
    THEN [kind |-> "err", cols |-> <<>>, rows |-> <<>>]
    ELSE [kind |-> "ok", cols |-> columns,
          rows |-> Projected(table, SelectedRows(table, where_clause), columns)]

execute_select(cat, table_name, columns, where_clause) ==
    IF find_table(cat, table_name) = 0 THEN [kind |-> "err", cols |-> <<>>, rows |-> <<>>]
    ELSE SelectFrom(cat[find_table(cat, table_name)], columns, where_clause)

\* as RowUpdated below, without the test of the WHERE clause
RowUpdatedIgnoringWhere(row, columns, set_col_idx, where_clause) ==
    set_col_idx <= Len(row)

\* whether execute_update rewrites the SET column of this row
RowUpdated(row, columns, set_col_idx, where_clause) ==
    /\ where_clause # NoWhere => RowMatches(row, columns, where_clause)
    /\ set_col_idx <= Len(row)

\* the rows of the table after the SET, and how many were rewritten
UpdatedRows(table, set_col_idx, new_value, where_clause) ==
    Tup([r \in 1..Len(table.rows) |->
           IF RowUpdated(table.rows[r], table.columns, set_col_idx, where_clause)
           THEN [table.rows[r] EXCEPT ![set_col_idx] = new_value]
           ELSE table.rows[r]])

UpdatedCount(table, set_col_idx, where_clause) ==
    Cardinality({r \in 1..Len(table.rows) :
                   RowUpdated(table.rows[r], table.columns, set_col_idx, where_clause)})

UpdateAt(cat, f, idx, set_col_idx, new_value, where_clause) ==
    IF set_col_idx = 0
       \/ (where_clause # NoWhere /\ ColumnIndex(cat[idx].columns, where_clause.column) = 0)
    THEN [kind |-> "err", catalog |-> cat, file |-> f, count |-> 0]
    ELSE Only({ [kind |-> saved.kind, catalog |-> saved.catalog, file |-> saved.file,
                 count |-> UpdatedCount(cat[idx], set_col_idx, where_clause)]
              : saved \in { Only({ Persisted(cat1, update_table_data(f, cat1[idx]))
                                 : cat1 \in {[cat EXCEPT ![idx].rows =
                                                UpdatedRows(cat[idx], set_col_idx, new_value,
                                                            where_clause)]} }) } })

execute_update(cat, f, table_name, column_to_set, new_value, where_clause) ==
    IF find_table(cat, table_name) = 0
    THEN [kind |-> "err", catalog |-> cat, file |-> f, count |-> 0]
    ELSE UpdateAt(cat, f, find_table(cat, table_name),
                  ColumnIndex(cat[find_table(cat, table_name)].columns, column_to_set),
                  new_value, where_clause)

\* the index of the table in the catalog, 0 for None
get_table_schema(cat, table) == find_table(cat, table)

(***************************************************************************)
(* Inputs of the commands                                                  *)
(***************************************************************************)
MaxCmds == 3

\* how many pages of an unbounded allocation are followed
MaxOverflowPages == 2

\* "t", "T", "u"
TableNames == {<<116>>, <<84>>, <<117>>}

TypeInt == <<73, 78, 84>>
TypeText == <<84, 69, 88, 84>>

\* a column name that leaves no room for its type in the schema page
LongName == Tup([i \in 1..(PAGE_SIZE - 8) |-> 110])

\* CREATE TABLE t (a INTEGER) | T (a INT, b TEXT) | u (a INT, b TEXT) |
\* v (nn..n TEXT), as the engine receives them
CreateCommands ==
    { [name |-> <<116>>, columns |-> <<[name |-> <<97>>, data_type |-> TypeInteger]>>],
      [name |-> <<84>>, columns |-> <<[name |-> <<97>>, data_type |-> TypeInt],
                                      [name |-> <<98>>, data_type |-> TypeText]>>],
      [name |-> <<117>>, columns |-> <<[name |-> <<97>>, data_type |-> TypeInt],
                                       [name |-> <<98>>, data_type |-> TypeText]>>],
      [name |-> <<118>>, columns |-> <<[name |-> LongName, data_type |-> TypeText]>>] }

\* texts of 16 and of 20 letters
Text16 == Tup([i \in 1..16 |-> 120])
Text20 == Tup([i \in 1..20 |-> 121])

\* a text that fits in a row page only without the page's next pointer, and
\* one that does not fit in a page at all
TextFill == Tup([i \in 1..(PAGE_SIZE - 24) |-> 122])
TextHuge == Tup([i \in 1..(PAGE_SIZE - 10) |-> 119])

\* the VALUES lists as written: 7 | 1, 'ab' | 2, "xx..x" | 3, yy..y | 4, zz..z
InsertLiterals ==
    { <<(<<55>>)>>,
      <<(<<49>>), <<39, 97, 98, 39>>>>,
      <<(<<50>>), <<34>> \o Text16 \o <<34>>>>,
      <<(<<51>>), Text20>>,
      <<(<<52>>), TextFill>> }

\* UPDATE .. SET b = 'c' | SET b = "c" WHERE a = 1 | SET a = 5 WHERE b != 'ab'
\* | SET b = ww..w | SET z = 5 | SET a = 5 WHERE z = 1
UpdateCommands ==
    { [column |-> <<98>>, lit |-> <<39, 99, 39>>, where |-> NoWhere],
      [column |-> <<98>>, lit |-> TextHuge, where |-> NoWhere],
      [column |-> <<122>>, lit |-> <<53>>, where |-> NoWhere],
      [column |-> <<97>>, lit |-> <<53>>,
       where |-> [column |-> <<122>>, operator |-> "=", value |-> <<49>>]],
      [column |-> <<98>>, lit |-> <<34, 99, 34>>,
       where |-> [column |-> <<97>>, operator |-> "=", value |-> <<49>>]],
      [column |-> <<97>>, lit |-> <<53>>,
       where |-> [column |-> <<98>>, operator |-> "!=", value |-> <<39, 97, 98, 39>>]] }

\* SELECT * | SELECT * .. WHERE b = 'ab' | SELECT b .. WHERE a > 1
\* | SELECT b, a | SELECT z | SELECT z, * | SELECT * .. WHERE z = 1
SelectCommands ==
    { [columns |-> <<(<<42>>)>>, where |-> NoWhere],
      [columns |-> <<(<<98>>), <<97>>>>, where |-> NoWhere],
      [columns |-> <<(<<122>>)>>, where |-> NoWhere],
      [columns |-> <<(<<122>>), <<42>>>>, where |-> NoWhere],
      [columns |-> <<(<<42>>)>>,
       where |-> [column |-> <<122>>, operator |-> "=", value |-> <<49>>]],
      [columns |-> <<(<<42>>)>>,
       where |-> [column |-> <<98>>, operator |-> "=", value |-> <<39, 97, 98, 39>>]],
      [columns |-> <<(<<98>>)>>,
       where |-> [column |-> <<97>>, operator |-> ">", value |-> <<49>>]] }

\* the clause parse_where_clause hands to the engine
ParsedWhere(w) == IF w = NoWhere THEN NoWhere ELSE [w EXCEPT !.value = WhereValue(w.value)]

\* the values parse_insert hands to the engine
ParsedValues(lits) == Tup([i \in 1..Len(lits) |-> InsertValue(lits[i])])

(***************************************************************************)
(* The process: open, load, commands, exit                                 *)
(***************************************************************************)
VARIABLES
    file,       \* the bytes of the database file
    pc,         \* "closed" | "opened" | "ready" | "hung" | "crashed"
    catalog,    \* QueryEngine.catalog.tables
    last,       \* the last call: its name, how it returned, what it returned
    snapshot,   \* the catalog the last process that loaded held at its exit, until a command runs
    clean,      \* a load returned Ok and no command ran since
    kinds,      \* the kinds of commands that ran on this file
    ncmds,      \* how many commands ran on this file
    expected,   \* the tables created and the rows inserted by the commands that returned Ok
    allOk,      \* every command on this file returned Ok
    cmd         \* the command of the last call, as the engine received it

vars == <<file, pc, catalog, last, snapshot, clean, kinds, ncmds, expected, allOk, cmd>>

\* a command: its table, its columns (CREATE: the declarations, SELECT: the
\* projection, UPDATE: the SET column), its values (INSERT: the row,
\* UPDATE: the SET value) and its WHERE clause
Cmd(table, columns, values, where) ==
    [table |-> table, columns |-> columns, values |-> values, where |-> where]

NoCmd == Cmd(<<>>, <<>>, <<>>, NoWhere)

Call(op, kind, warned, out) == [op |-> op, kind |-> kind, warned |-> warned, out |-> out]

PcAfter(kind) ==
    IF kind \in {"ok", "err"} THEN "ready"
    ELSE IF kind = "hang" THEN "hung" ELSE "crashed"

Init ==
    /\ file = <<>>
    /\ pc = "closed"
    /\ catalog = EmptyCatalog
    /\ last = Call("none", "ok", FALSE, <<>>)
    /\ snapshot = EmptyCatalog
    /\ clean = FALSE
    /\ kinds = {}
    /\ ncmds = 0
    /\ expected = <<>>
    /\ allOk = TRUE
    /\ cmd = NoCmd

\* Database::new
Open ==
    /\ pc = "closed"
    /\ \E r \in {initialize_if_needed(file)} :
       /\ file' = r.file
       /\ pc' = IF r.ok THEN "opened" ELSE "closed"
       /\ last' = Call("open", IF r.ok THEN "ok" ELSE "err", r.warned, <<>>)
    /\ cmd' = NoCmd
    /\ UNCHANGED <<catalog, snapshot, clean, kinds, ncmds, expected, allOk>>

\* Database::load_catalog; on Err the callers go on with Catalog::new()
LoadCatalog ==
    /\ pc = "opened"
    /\ \E r \in {load_catalog(file)} :
       /\ file' = r.file
       /\ catalog' = r.catalog
       /\ pc' = PcAfter(r.kind)
       /\ clean' = (r.kind = "ok")
       /\ last' = Call("load", r.kind, r.warned,
                        [num_tables |-> r.num_tables, schema_root |-> r.schema_root])
    /\ cmd' = NoCmd
    /\ UNCHANGED <<snapshot, kinds, ncmds, expected, allOk>>

\* the process ends (exit, or killed while hung or after a panic)
Close ==
    /\ pc # "closed"
    /\ pc' = "closed"
    /\ snapshot' = IF pc = "opened" THEN snapshot ELSE catalog
    /\ catalog' = EmptyCatalog
    /\ last' = Call("close", "ok", FALSE, <<>>)
    /\ cmd' = NoCmd
    /\ UNCHANGED <<file, clean, kinds, ncmds, expected, allOk>>

CanRun == pc = "ready" /\ ncmds < MaxCmds

\* the file a command leaves.  A row rewrite that recurses for ever
\* allocates one zero page per level until the stack is exhausted: the
\* file has grown by some number of pages when the process dies
FilesAfter(r) ==
    IF r.kind = "overflow"
    THEN {r.file \o Zeros(k * PAGE_SIZE) : k \in 1..MaxOverflowPages}
    ELSE {r.file}

\* a command ran: its kind and outcome are noted
Ran(kind, op) ==
    /\ clean' = FALSE
    /\ snapshot' = EmptyCatalog
    /\ kinds' = kinds \cup {op}
    /\ ncmds' = ncmds + 1
    /\ allOk' = (allOk /\ kind = "ok")

CreateTableCmd(c) ==
    /\ CanRun
    /\ \E r \in {execute_create_table(catalog, file, c.name, c.columns)} :
       /\ file' \in FilesAfter(r)
       /\ catalog' = r.catalog
       /\ pc' = PcAfter(r.kind)
       /\ last' = Call("create", r.kind, FALSE,
                        [rejected |-> HasTableExact(catalog, c.name)])
       /\ cmd' = Cmd(c.name, c.columns, <<>>, NoWhere)
       /\ Ran(r.kind, "create")
       /\ expected' = IF r.kind = "ok"
                      THEN Append(expected, [name |-> c.name, columns |-> c.columns,
                                             rows |-> <<>>])
                      ELSE expected

CreateTable == \E c \in CreateCommands : CreateTableCmd(c)

InsertCmd(table, lits) ==
    /\ CanRun
    /\ \E r \in {execute_insert(catalog, file, table, ParsedValues(lits))} :
       /\ file' \in FilesAfter(r)
       /\ catalog' = r.catalog
       /\ pc' = PcAfter(r.kind)
       /\ last' = Call("insert", r.kind, FALSE, <<>>)
       /\ cmd' = Cmd(table, <<>>, ParsedValues(lits), NoWhere)
       /\ Ran(r.kind, "insert")
       /\ expected' = IF r.kind = "ok" /\ find_table(expected, table) # 0
                      THEN [expected EXCEPT ![find_table(expected, table)].rows =
                                               Append(@, ParsedValues(lits))]
                      ELSE expected

Insert == \E table \in TableNames, lits \in InsertLiterals : InsertCmd(table, lits)

UpdateCmd(table, u) ==
    /\ CanRun
    /\ \E r \in {execute_update(catalog, file, table, u.column, SetValue(u.lit),
                                  ParsedWhere(u.where))} :
       /\ file' \in FilesAfter(r)
       /\ catalog' = r.catalog
       /\ pc' = PcAfter(r.kind)
       /\ last' = Call("update", r.kind, FALSE, r.count)
       /\ cmd' = Cmd(table, <<u.column>>, <<SetValue(u.lit)>>, ParsedWhere(u.where))
       /\ Ran(r.kind, "update")
       /\ UNCHANGED expected

Update == \E table \in TableNames, u \in UpdateCommands : UpdateCmd(table, u)

SelectCmd(table, q) ==
    /\ CanRun
    /\ \E r \in {execute_select(catalog, table, q.columns, ParsedWhere(q.where))} :
       last' = Call("select", r.kind, FALSE, [cols |-> r.cols, rows |-> r.rows])
    /\ cmd' = Cmd(table, q.columns, <<>>, ParsedWhere(q.where))
    /\ ncmds' = ncmds + 1
    /\ UNCHANGED <<file, pc, catalog, snapshot, clean, kinds, expected, allOk>>

Select == \E table \in TableNames, q \in SelectCommands : SelectCmd(table, q)

\* INSPECT: get_table_schema, then the table is printed or reported missing
InspectCmd(table) ==
    /\ CanRun
    /\ \E idx \in {get_table_schema(catalog, table)} :
       last' = Call("inspect", IF idx = 0 THEN "err" ELSE "ok", FALSE,
                    IF idx = 0 THEN NoTable ELSE catalog[idx])
    /\ cmd' = Cmd(table, <<>>, <<>>, NoWhere)
    /\ ncmds' = ncmds + 1
    /\ UNCHANGED <<file, pc, catalog, snapshot, clean, kinds, expected, allOk>>

Inspect == \E table \in TableNames : InspectCmd(table)

Next ==
    Open \/ LoadCatalog \/ Close \/ CreateTable \/ Insert \/ Update \/ Select \/ Inspect

Spec == Init /\ [][Next]_vars

(***************************************************************************)
(* Reopening files that were not written by this run                       *)
(***************************************************************************)
\* u (a INT, b TEXT) with the row (1, ab); t (a INTEGER) without rows
StoredTable ==
    [name |-> <<117>>,
     columns |-> <<[name |-> <<97>>, data_type |-> TypeInt],
                   [name |-> <<98>>, data_type |-> TypeText]>>,
     rows |-> << <<(<<49>>), <<97, 98>>>> >>]
OtherStoredTable ==
    [name |-> <<116>>, columns |-> <<[name |-> <<97>>, data_type |-> TypeInteger]>>,
     rows |-> <<>>]

\* a fresh file; one table stored; a second table stored after it
FreshFile == initialize_if_needed(<<>>).file
OneTableFile == save_table(FreshFile, StoredTable, TRUE).file
TwoTableFile == save_table(OneTableFile, OtherStoredTable, TRUE).file

\* the header fields overwritten
WithHeader(f, magic, schema_root, table_count) ==
    write_page(f, HEADER_PAGE_ID,
               Put(Put(Put(read_page(f, HEADER_PAGE_ID), 0, magic), 12, LE(schema_root, 8)),
                   20, LE(table_count, 4)))

\* the next_schema_page_id of the schema page page_id overwritten, at the
\* offset where the loader reads it
WithNext(f, page_id, next) ==
    LET page == read_page(f, page_id) IN
    IF read_table_from_page(f, page_id).kind # "some" THEN f
    ELSE write_page(f, page_id,
                    Put(page, SkipColumns(page, 8 + U32At(page, 0), U32At(page, 4 + U32At(page, 0))) + 8,
                        LE(next, 8)))

BadMagic == <<66, 68, 65, 84, 78, 69, 83, 0>>

\* the schema page page_id of f damaged: its first name byte made a byte no
\* UTF-8 text holds, or its name length made longer than any name
Damages == {"none", "name bytes", "name length"}
WithDamage(f, page_id, damage) ==
    IF read_table_from_page(f, page_id).kind # "some" \/ damage = "none" THEN f
    ELSE IF damage = "name bytes"
    THEN write_page(f, page_id, Put(read_page(f, page_id), 4, <<255>>))
    ELSE write_page(f, page_id, Put(read_page(f, page_id), 0, LE(MaxNameLen + 1, 4)))

\* the next_row_page_id of the row page page_id overwritten, at the offset
\* where the loader reads it
WithRowNext(f, page_id, columns, next) ==
    LET page == read_page(f, page_id) IN
    write_page(f, page_id,
               Put(page, ReadRows(page, 4, U32At(page, 0), columns, <<>>).offset, LE(next, 8)))

\* one table stored, its row page chained to itself
RowCycleFiles ==
    { WithRowNext(WithHeader(OneTableFile, MAGIC_NUMBER, 1, c), 2, StoredTable.columns, 2) :
        c \in {1, 2} }

AnyFiles ==
    RowCycleFiles \cup
    { WithDamage(WithNext(WithNext(WithHeader(b, m, r, c), 1, n), 3, n3), 3, d) :
        b \in {FreshFile, OneTableFile, TwoTableFile},
        m \in {MAGIC_NUMBER, Zeros(8), BadMagic},
        r \in {0, 1, 3, 7},
        c \in {0, 1, 2, 3},
        n \in {0, 1, 3},
        n3 \in {0, 1, 3},
        d \in Damages }

InitAny ==
    /\ file \in AnyFiles
    /\ pc = "closed"
    /\ catalog = EmptyCatalog
    /\ last = Call("none", "ok", FALSE, <<>>)
    /\ snapshot = EmptyCatalog
    /\ clean = FALSE
    /\ kinds = {}
    /\ ncmds = 0
    /\ expected = <<>>
    /\ allOk = TRUE
    /\ cmd = NoCmd

NextReopen == Open \/ LoadCatalog \/ Close

SpecReopen == InitAny /\ [][NextReopen]_vars

(***************************************************************************)
(* Queries and updates on a file that holds a table with two rows          *)
(***************************************************************************)
\* CREATE TABLE u (a INT, b TEXT); INSERT (1, ab); INSERT (2, cd)
StoredCreate ==
    execute_create_table(EmptyCatalog, FreshFile, <<117>>,
                         <<[name |-> <<97>>, data_type |-> TypeInt],
                           [name |-> <<98>>, data_type |-> TypeText]>>)
StoredInsert == execute_insert(StoredCreate.catalog, StoredCreate.file, <<117>>,
                               <<(<<49>>), <<97, 98>>>>)
StoredRows == execute_insert(StoredInsert.catalog, StoredInsert.file, <<117>>,
                             <<(<<50>>), <<99, 100>>>>)

InitStored ==
    /\ file = StoredRows.file
    /\ pc = "closed"
    /\ catalog = EmptyCatalog
    /\ last = Call("none", "ok", FALSE, <<>>)
    /\ snapshot = EmptyCatalog
    /\ clean = FALSE
    /\ kinds = {"create", "insert"}
    /\ ncmds = 0
    /\ expected = StoredRows.catalog
    /\ allOk = TRUE
    /\ cmd = NoCmd

\* the commands that read or rewrite the rows of the stored table
NextStored == Open \/ LoadCatalog \/ Close \/ Update \/ Select \/ Inspect

SpecStored == InitStored /\ [][NextStored]_vars

(***************************************************************************)
(* The WHERE predicate on its own                                          *)
(***************************************************************************)
\* 1, 2, 10, -1, +1, 01, ab, AB, aB, the empty text, 1x, " 1", a%, a_, (
WhereOperands ==
    { <<49>>, <<50>>, <<49, 48>>, <<45, 49>>, <<43, 49>>, <<48, 49>>, <<97, 98>>,
      <<65, 66>>, <<97, 66>>, <<>>, <<49, 120>>, <<32, 49>>, <<97, 37>>, <<97, 95>>,
      <<40>> }

\* the operators parse_where_clause produces, and one it does not
WhereOperators == {"=", "!=", "<", ">", "<=", ">=", "LIKE", "NOT LIKE", "<>"}

\* INTEGER, INT, TEXT, integer
ColumnTypes == {TypeInteger, TypeInt, TypeText, <<105, 110, 116, 101, 103, 101, 114>>}

\* the row value is the command's value, the literal its WHERE value, the
\* column type its column
InitWhere ==
    /\ file = <<>>
    /\ pc = "closed"
    /\ catalog = EmptyCatalog
    /\ last = Call("none", "ok", FALSE, <<>>)
    /\ snapshot = EmptyCatalog
    /\ clean = FALSE
    /\ kinds = {}
    /\ ncmds = 0
    /\ expected = <<>>
    /\ allOk = TRUE
    /\ cmd \in { Cmd(<<>>, <<column_type>>, <<row_value>>,
                      [column |-> <<>>, operator |-> operator, value |-> clause_value])
                 : column_type \in ColumnTypes, row_value \in WhereOperands,
                   operator \in WhereOperators, clause_value \in WhereOperands }

EvaluateCondition ==
    /\ last.op = "none"
    /\ last' = Call("where", "ok", FALSE,
                     evaluate_condition(cmd.values[1], cmd.where.operator, cmd.where.value,
                                        cmd.columns[1]))
    /\ UNCHANGED <<file, pc, catalog, snapshot, clean, kinds, ncmds, expected, allOk, cmd>>

NextWhere == EvaluateCondition

SpecWhere == InitWhere /\ [][NextWhere]_vars

(***************************************************************************)
(* allocate_page over files of any length                                  *)
(***************************************************************************)
MaxAllocs == 2
MaxTail == 8

\* files of every length up to two pages and a tail, no byte of them zero
AllocFiles == { Tup([i \in 1..n |-> 7]) : n \in 0..(2 * PAGE_SIZE + MaxTail) }

InitAlloc ==
    /\ file \in AllocFiles
    /\ pc = "opened"
    /\ catalog = EmptyCatalog
    /\ last = Call("none", "ok", FALSE, <<>>)
    /\ snapshot = EmptyCatalog
    /\ clean = FALSE
    /\ kinds = {}
    /\ ncmds = 0
    /\ expected = <<>>
    /\ allOk = TRUE
    /\ cmd = NoCmd

\* StorageEngine::allocate_page
AllocatePage ==
    /\ ncmds < MaxAllocs
    /\ \E r \in {allocate_page(file)} :
       /\ file' = r.file
       /\ last' = Call("allocate", "ok", FALSE, r.id)
    /\ ncmds' = ncmds + 1
    /\ UNCHANGED <<pc, catalog, snapshot, clean, kinds, expected, allOk, cmd>>

NextAlloc == AllocatePage

SpecAlloc == InitAlloc /\ [][NextAlloc]_vars

(***************************************************************************)
(* Commands interrupted between two page writes                            *)
(***************************************************************************)
MaxCrashes == 2

\* a text with which one row (int, text) fills a row page so far that the
\* next row goes to a page of its own
TextTail == Tup([i \in 1..(PAGE_SIZE - 34) |-> 118])

\* w (a INT, nn..n INTEGER): its schema page ends 16 bytes before the end of
\* the page, so that its next pointer lies in the last 8 bytes
AlignedColumns ==
    <<[name |-> <<97>>, data_type |-> TypeInt],
      [name |-> Tup([i \in 1..(PAGE_SIZE - 52) |-> 110]), data_type |-> TypeInteger]>>

\* u with (1, ab), (2, cd); then t created after it; u with (1, vv..v),
\* (2, cd) on two row pages; w with the row (1, 2)
TwoTablesStored == execute_create_table(StoredRows.catalog, StoredRows.file, <<116>>,
                                        <<[name |-> <<97>>, data_type |-> TypeInteger]>>)
ChainInsert == execute_insert(StoredCreate.catalog, StoredCreate.file, <<117>>,
                              <<(<<49>>), TextTail>>)
ChainStored == execute_insert(ChainInsert.catalog, ChainInsert.file, <<117>>,
                              <<(<<50>>), <<99, 100>>>>)
AlignedCreate == execute_create_table(EmptyCatalog, FreshFile, <<119>>, AlignedColumns)
AlignedStored == execute_insert(AlignedCreate.catalog, AlignedCreate.file, <<119>>,
                                <<(<<49>>), <<50>>>>)

CrashFiles ==
    {FreshFile, StoredRows.file, TwoTablesStored.file, ChainStored.file, AlignedStored.file}

\* INSERT (3, ef) | (3, vv..v) | (7);  UPDATE SET b = 'c' | SET b = ww..w
\* | SET b = vv..v WHERE a = 2 | SET a = 5
CrashInserts == { <<(<<51>>), <<101, 102>>>>, <<(<<51>>), TextTail>>, <<(<<55>>)>> }
CrashUpdates ==
    { [column |-> <<98>>, value |-> <<99>>, where |-> NoWhere],
      [column |-> <<98>>, value |-> TextHuge, where |-> NoWhere],
      [column |-> <<98>>, value |-> TextTail,
       where |-> [column |-> <<97>>, operator |-> "=", value |-> <<50>>]],
      [column |-> <<97>>, value |-> <<53>>, where |-> NoWhere] }
CrashTables == {<<116>>, <<117>>, <<119>>}

InitCrash ==
    /\ file \in CrashFiles
    /\ pc = "closed"
    /\ catalog = EmptyCatalog
    /\ last = Call("none", "ok", FALSE, <<>>)
    /\ snapshot = EmptyCatalog
    /\ clean = FALSE
    /\ kinds = {}
    /\ ncmds = 0
    /\ expected = <<>>
    /\ allOk = TRUE
    /\ cmd = NoCmd

\* the process dies after k of the page writes of a command: the file keeps
\* the first k writes, the memory is gone
Crashed(op, table, w, k) ==
    /\ file' = IF k = 0 THEN file ELSE w.files[k]
    /\ pc' = "closed"
    /\ catalog' = EmptyCatalog
    /\ last' = Call("crash", w.kind, FALSE, k)
    /\ expected' = <<[op |-> op, table |-> table, before |-> file, kind |-> w.kind,
                      k |-> k, files |-> w.files]>>
    /\ ncmds' = ncmds + 1
    /\ cmd' = NoCmd
    /\ UNCHANGED <<snapshot, clean, kinds, allOk>>

CanCrash == pc = "ready" /\ ncmds < MaxCrashes

\* execute_create_table cut short inside save_table
CreateTableCrash ==
    /\ CanCrash
    /\ \E c \in CreateCommands :
       /\ ~NameTaken(catalog, c.name)
       /\ \E table \in {[name |-> c.name, columns |-> c.columns, rows |-> <<>>]} :
          \E w \in {SaveTableWrites(file, table)} :
          \E k \in 0..Len(w.files) : Crashed("create", table, w, k)

\* execute_insert cut short inside update_table_data
InsertCrash ==
    /\ CanCrash
    /\ \E name \in CrashTables, values \in CrashInserts :
       /\ find_table(catalog, name) # 0
       /\ Len(values) = Len(catalog[find_table(catalog, name)].columns)
       /\ \E table \in {[catalog[find_table(catalog, name)]
                            EXCEPT !.rows = Append(@, values)]} :
          \E w \in {UpdateTableWrites(file, table)} :
          \E k \in 0..Len(w.files) : Crashed("insert", table, w, k)

\* execute_update cut short inside update_table_data
UpdateCrash ==
    /\ CanCrash
    /\ \E name \in CrashTables, u \in CrashUpdates :
       /\ find_table(catalog, name) # 0
       /\ ColumnIndex(catalog[find_table(catalog, name)].columns, u.column) # 0
       /\ \E table \in {[catalog[find_table(catalog, name)]
                            EXCEPT !.rows = UpdatedRows(catalog[find_table(catalog, name)],
                                     ColumnIndex(catalog[find_table(catalog, name)].columns,
                                                 u.column),
                                     u.value, u.where)]} :
          \E w \in {UpdateTableWrites(file, table)} :
          \E k \in 0..Len(w.files) : Crashed("update", table, w, k)

NextCrash == Open \/ LoadCatalog \/ CreateTableCrash \/ InsertCrash \/ UpdateCrash

SpecCrash == InitCrash /\ [][NextCrash]_vars

(***************************************************************************)
(* save_rows_to_pages and load_rows_from_pages over rows of two columns    *)
(***************************************************************************)
\* INT, INTEGER, TEXT, int
RowTypes == {TypeInt, TypeInteger, TypeText, <<105, 110, 116>>}

\* "", 1, +1, 007, -0, -5, ab, 1x, and a text of 20 bytes
RowValues ==
    {<<>>, <<49>>, <<43, 49>>, <<48, 48, 55>>, <<45, 48>>, <<45, 53>>, <<97, 98>>,
     <<49, 120>>, Text20}

\* the values of the rows that come in pairs
PairValues == {<<>>, <<49>>, Text20, TextHuge}

RowInputs ==
    { <<(<<v1, v2>>)>> : v1 \in RowValues, v2 \in RowValues }
    \cup { << <<v1, v2>>, <<v3, v4>> >> :
             v1 \in PairValues, v2 \in PairValues, v3 \in PairValues, v4 \in PairValues }

InitRow ==
    /\ file = FreshFile
    /\ pc = "opened"
    /\ catalog = EmptyCatalog
    /\ last = Call("none", "ok", FALSE, <<>>)
    /\ snapshot = EmptyCatalog
    /\ clean = FALSE
    /\ kinds = {}
    /\ ncmds = 0
    /\ expected = <<>>
    /\ allOk = TRUE
    /\ cmd \in { Cmd(<<>>, <<[name |-> <<97>>, data_type |-> t1],
                              [name |-> <<98>>, data_type |-> t2]>>, rows, NoWhere)
                 : t1 \in RowTypes, t2 \in RowTypes, rows \in RowInputs }

\* save_rows_to_pages(rows, columns, None)
SaveRows ==
    /\ last.op = "none"
    /\ \E r \in {save_rows_to_pages(file, cmd.values, cmd.columns, 0)} :
       /\ file' = r.file
       /\ pc' = PcAfter(r.kind)
       /\ last' = Call("save_rows", r.kind, FALSE, r.id)
    /\ UNCHANGED <<catalog, snapshot, clean, kinds, ncmds, expected, allOk, cmd>>

\* load_rows_from_pages(page.id, columns) on the chain just written
LoadRows ==
    /\ last.op = "save_rows" /\ last.kind = "ok"
    /\ \E r \in {load_rows_from_pages(file, last.out, cmd.columns)} :
       /\ pc' = PcAfter(r.kind)
       /\ last' = Call("load_rows", r.kind, FALSE, r.rows)
    /\ UNCHANGED <<file, catalog, snapshot, clean, kinds, ncmds, expected, allOk, cmd>>

NextRow == SaveRows \/ LoadRows

SpecRow == InitRow /\ [][NextRow]_vars

(***************************************************************************)
(* Properties                                                              *)
(***************************************************************************)
schema_root_of(f) == U64At(read_page(f, HEADER_PAGE_ID), 12)
table_count_of(f) == U32At(read_page(f, HEADER_PAGE_ID), 20)

\* name and columns of every table, in order
Schemas(tables) ==
    Tup([i \in 1..Len(tables) |-> [name |-> tables[i].name, columns |-> tables[i].columns]])

\* no two tables with names equal under ASCII case-folding
FoldDistinct(tables) ==
    \A i, j \in 1..Len(tables) : i # j => ToLower(tables[i].name) # ToLower(tables[j].name)

\* the schema pages the loader reaches from schema_root, whatever table_count says
ReachableSchemaPages(f) ==
    IF schema_root_of(f) = 0 THEN 0
    ELSE LoadTables(f, schema_root_of(f), 0, Saturated, {}, <<>>).loaded

\* C1: after successful CREATE TABLE commands only, with pairwise distinct
\* names, a reopen loads every created table, in creation order, with its
\* columns in order
C1_SchemaRoundTrip ==
    (/\ last.op = "load" /\ last.kind = "ok"
     /\ kinds = {"create"} /\ allOk /\ FoldDistinct(expected))
    => Schemas(catalog) = Schemas(expected)

\* C3: after successful commands on a file that started empty, table_count
\* is the number of schema pages the loader reaches from schema_root
C3_CountMatchesChain ==
    (allOk /\ pc = "ready" /\ last.op \in {"create", "insert", "update"})
    => table_count_of(file) = ReachableSchemaPages(file)

\* C10: after CREATE TABLE commands only, no two tables of the catalog have
\* names that are equal under ASCII case-folding
C10_NamesUniqueFolded ==
    kinds \subseteq {"create"} => FoldDistinct(catalog)

\* the bytes save_rows_to_pages spends on a row
EncodedSize(row, columns) ==
    IF row = <<>> THEN 0
    ELSE (IF Head(row) = <<>> THEN 1
          ELSE IF IsIntType(ToUpper(Head(columns).data_type)) /\ ParseI64(Head(row)).ok THEN 9
          ELSE 5 + Len(Head(row)))
         + (IF Len(row) = 1 THEN 0
            ELSE IF Len(row) = 2
            THEN (IF row[2] = <<>> THEN 1
                  ELSE IF IsIntType(ToUpper(columns[2].data_type)) /\ ParseI64(row[2]).ok THEN 9
                  ELSE 5 + Len(row[2]))
            ELSE PAGE_SIZE)

RECURSIVE RowsSize(_, _)
RowsSize(rows, columns) ==
    IF rows = <<>> THEN 0 ELSE EncodedSize(Head(rows), columns) + RowsSize(Tail(rows), columns)

\* what one row page holds beside row_count and next_row_page_id
RowPageCapacity == PAGE_SIZE - 4 - 8

\* a reopen just loaded a file that only successful commands of these kinds wrote
ReloadedAfter(cmds) ==
    /\ last.op = "load" /\ last.kind = "ok"
    /\ kinds # {} /\ kinds \subseteq cmds /\ allOk

\* C2: after successful INSERTs into a table, first or later, whose rows
\* fit in one row page, a reopen yields the table with exactly those rows
\* in insertion order
C2_RowsRoundTrip ==
    (/\ ReloadedAfter({"create", "insert"})
     /\ FoldDistinct(expected)
     /\ \A i \in 1..Len(expected) :
            RowsSize(expected[i].rows, expected[i].columns) <= RowPageCapacity)
    => \A i \in 1..Len(expected) :
          expected[i].rows # <<>>
          => /\ find_table(catalog, expected[i].name) # 0
             /\ catalog[find_table(catalog, expected[i].name)].rows = expected[i].rows

\* a literal without its surrounding pair of single or double quotes
Unquoted(lit) ==
    IF Len(lit) >= 2 /\ lit[1] \in {34, 39} /\ lit[Len(lit)] = lit[1]
    THEN SubSeq(lit, 2, Len(lit) - 1)
    ELSE lit

\* every literal the INSERT and UPDATE commands are written with
WrittenLiterals ==
    UNION {{lits[i] : i \in 1..Len(lits)} : lits \in InsertLiterals}
      \cup {u.lit : u \in UpdateCommands}

\* C4: a quoted literal of INSERT or of UPDATE SET, single- or
\* double-quoted, is stored without its surrounding quotes
C4_LiteralsStoredUnquoted ==
    \A t \in 1..Len(catalog) : \A r \in 1..Len(catalog[t].rows) :
       \A i \in 1..Len(catalog[t].rows[r]) :
          catalog[t].rows[r][i] \in {Unquoted(lit) : lit \in WrittenLiterals}

\* C5: rows of the first table that each fit in an empty row page but
\* together exceed one page are all there after persisting and reloading,
\* unchanged and in order
C5_MultiPageRowsRoundTrip ==
    (/\ ReloadedAfter({"create", "insert"})
     /\ Len(expected) = 1
     /\ \A r \in 1..Len(expected[1].rows) :
            EncodedSize(expected[1].rows[r], expected[1].columns) <= RowPageCapacity
     /\ RowsSize(expected[1].rows, expected[1].columns) > RowPageCapacity)
    => /\ Len(catalog) = 1
       /\ catalog[1].rows = expected[1].rows

\* C6: a load that follows a successful load with no command in between
\* returns the same tables, columns and rows as the first
C6_SecondLoadSameCatalog ==
    [][(clean /\ last'.op = "load" /\ last'.kind = "ok") => catalog' = snapshot]_vars

\* a second load returned, unchanged, the tables the first load returned
C6_Witness ==
    /\ last.op = "load" /\ last.kind = "ok"
    /\ Len(snapshot) > 0 /\ catalog = snapshot
    /\ table_count_of(file) = Len(catalog)

\* C7: a load that directly follows a load leaves the header page as it was
C7_SecondLoadKeepsHeader ==
    [][(clean /\ last'.op = "load")
       => read_page(file', HEADER_PAGE_ID) = read_page(file, HEADER_PAGE_ID)]_vars

\* C8: after a successful load the header has table_count = 0 exactly when
\* schema_root = 0
C8_CountZeroIffRootZero ==
    (last.op = "load" /\ last.kind = "ok")
    => (table_count_of(file) = 0 <=> schema_root_of(file) = 0)

\* C9: a load never raises table_count and changes schema_root to 0 only
C9_RepairOnlyShrinks ==
    [][last'.op = "load"
       => /\ table_count_of(file') <= table_count_of(file)
          /\ schema_root_of(file') \in {schema_root_of(file), 0}]_vars

\* a load lowered the count to the number of tables it decoded, not to zero
C9_Witness ==
    /\ last.op = "load" /\ last.kind = "ok" /\ last.warned
    /\ table_count_of(file) < last.out.num_tables
    /\ table_count_of(file) > 0

\* C11: every table of the catalog is the one that lookup finds under each
\* ASCII case variant of its name
C11_LookupFindsCreatedTable ==
    \A i \in 1..Len(catalog) :
        \A n \in {catalog[i].name, ToLower(catalog[i].name), ToUpper(catalog[i].name)} :
            find_table(catalog, n) = i

\* the rows of the table the command names for which its WHERE clause holds
\* (all rows without a clause)
MatchingRows(cat, c) ==
    {r \in 1..Len(cat[find_table(cat, c.table)].rows) :
        c.where # NoWhere =>
            RowMatches(cat[find_table(cat, c.table)].rows[r],
                       cat[find_table(cat, c.table)].columns, c.where)}

\* C12: the count a successful UPDATE returns is the number of rows that
\* matched WHERE before the update (all rows without WHERE)
C12_UpdateCountIsMatchCount ==
    [][(last'.op = "update" /\ last'.kind = "ok")
          => last'.out = Cardinality(MatchingRows(catalog, cmd'))]_vars

\* an UPDATE with a WHERE clause returned a count above zero and below the
\* number of rows
C12_Witness ==
    /\ last.op = "update" /\ last.kind = "ok"
    /\ cmd.where # NoWhere
    /\ last.out > 0
    /\ last.out < Len(catalog[find_table(catalog, cmd.table)].rows)

\* what an UPDATE may change of the catalog cat to give cat2: in the table
\* the command c names, the SET column of the rows matching WHERE
UpdateFrame(cat, cat2, c) ==
    LET idx == find_table(cat, c.table)
        col == ColumnIndex(cat[idx].columns, c.columns[1])
    IN  /\ Len(cat2) = Len(cat)
        /\ \A j \in 1..Len(cat) : j # idx => cat2[j] = cat[j]
        /\ cat2[idx].name = cat[idx].name
        /\ cat2[idx].columns = cat[idx].columns
        /\ Len(cat2[idx].rows) = Len(cat[idx].rows)
        /\ \A r \in 1..Len(cat[idx].rows) :
              cat2[idx].rows[r] = IF r \in MatchingRows(cat, c)
                                  THEN [cat[idx].rows[r] EXCEPT ![col] = c.values[1]]
                                  ELSE cat[idx].rows[r]

\* C13: a successful UPDATE on a catalog that the file holds changes only
\* the SET column of the matching rows, in memory and in what a reopen loads
C13_UpdateFrame ==
    [][(last'.op = "update" /\ last'.kind = "ok" /\ load_catalog(file).catalog = catalog)
          => /\ UpdateFrame(catalog, catalog', cmd')
             /\ UpdateFrame(catalog, load_catalog(file').catalog, cmd')]_vars

\* C14: a CREATE TABLE of a name the catalog already holds returns an error
\* and leaves the file, its length included, and the catalog as they were
C14_RejectedCreateTouchesNothing ==
    [][(last'.op = "create" /\ HasTableExact(catalog, cmd'.table))
          => (last'.kind = "err" /\ file' = file /\ catalog' = catalog)]_vars

\* a CREATE TABLE was rejected because the name was in the catalog
C14_Witness ==
    last.op = "create" /\ last.kind = "err" /\ last.out.rejected

\* every row of the catalog has one value for each column of its table
RowsHaveArity ==
    \A i \in 1..Len(catalog) : \A r \in 1..Len(catalog[i].rows) :
        Len(catalog[i].rows[r]) = Len(catalog[i].columns)

\* C15: an INSERT whose number of values is not the table's number of
\* columns returns an error and leaves the catalog and the file unchanged;
\* every row of the catalog always has as many values as its table has columns
C15_ArityChecked ==
    /\ [][(/\ last'.op = "insert"
            /\ find_table(catalog, cmd'.table) # 0
            /\ Len(cmd'.values) # Len(catalog[find_table(catalog, cmd'.table)].columns))
          => (last'.kind = "err" /\ catalog' = catalog /\ file' = file)]_vars
    /\ []RowsHaveArity

\* an INSERT into an existing table was refused for its number of values
C15_Witness ==
    /\ last.op = "insert" /\ last.kind = "err"
    /\ find_table(catalog, cmd.table) # 0
    /\ Len(cmd.values) # Len(catalog[find_table(catalog, cmd.table)].columns)

RECURSIVE ColumnsSize(_)
\* the bytes save_table writes for the columns
ColumnsSize(columns) ==
    IF columns = <<>> THEN 0
    ELSE 4 + Len(Head(columns).name) + 4 + Len(Head(columns).data_type)
         + ColumnsSize(Tail(columns))

\* the bytes of a schema page: name, column count, columns, data page id,
\* next schema page id
SchemaSize(name, columns) == 4 + Len(name) + 4 + ColumnsSize(columns) + 8 + 8

\* C16: a CREATE TABLE whose schema does not fit in one page returns an
\* error and leaves the file, its length included, as it was
C16_OversizedSchemaTouchesNothing ==
    [][(last'.op = "create" /\ SchemaSize(cmd'.table, cmd'.columns) > PAGE_SIZE)
          => (last'.kind = "err" /\ file' = file)]_vars

\* the rows of table idx that a command wrote anew: appended or changed
NewRows(cat, cat2, idx) ==
    {r \in 1..Len(cat2[idx].rows) :
        r > Len(cat[idx].rows) \/ cat2[idx].rows[r] # cat[idx].rows[r]}

\* C17: an INSERT or UPDATE that produces a row too large for an empty row
\* page returns an error
C17_OversizedRowRejected ==
    [][(/\ last'.op \in {"insert", "update"}
        /\ find_table(catalog, cmd'.table) # 0
        /\ Len(catalog') = Len(catalog)
        /\ \E r \in NewRows(catalog, catalog', find_table(catalog, cmd'.table)) :
              EncodedSize(catalog'[find_table(catalog, cmd'.table)].rows[r],
                          catalog[find_table(catalog, cmd'.table)].columns)
                 > RowPageCapacity)
          => last'.kind = "err"]_vars

\* the six comparisons on integers
NumericRelation(operator, x, y) ==
    \/ operator = "=" /\ x = y
    \/ operator = "!=" /\ x # y
    \/ operator = "<" /\ x < y
    \/ operator = ">" /\ x > y
    \/ operator = "<=" /\ x <= y
    \/ operator = ">=" /\ x >= y

\* C18: on a column declared INTEGER the predicate is true exactly when
\* both operands parse as i64 and the operator is one of the six
\* comparisons and holds of the two numbers
C18_IntegerPredicate ==
    (last.op = "where" /\ cmd.columns[1] = <<73, 78, 84, 69, 71, 69, 82>>)
       => (last.out <=>
              /\ ParseI64(cmd.values[1]).ok
              /\ ParseI64(cmd.where.value).ok
              /\ NumericRelation(cmd.where.operator,
                                 I64Value(ParseI64(cmd.values[1]).bytes),
                                 I64Value(ParseI64(cmd.where.value).bytes)))

\* "!=" on an INTEGER column with a row value that does not parse
\* evaluated to false
C18_Witness ==
    /\ last.op = "where" /\ cmd.columns[1] = <<73, 78, 84, 69, 71, 69, 82>>
    /\ cmd.where.operator = "!="
    /\ ~ParseI64(cmd.values[1]).ok /\ ParseI64(cmd.where.value).ok
    /\ last.out = FALSE

\* str::eq_ignore_ascii_case
EqIgnoreAsciiCase(a, b) ==
    Len(a) = Len(b) /\ \A i \in 1..Len(a) : LowerChar(a[i]) = LowerChar(b[i])

\* C19: on a column whose declared type is not exactly INTEGER, "=" is
\* equality without regard to ASCII case, "!=" its negation, and the four
\* ordering operators are false
C19_TextPredicate ==
    (last.op = "where" /\ cmd.columns[1] # <<73, 78, 84, 69, 71, 69, 82>>)
       => /\ cmd.where.operator = "="
               => (last.out <=> EqIgnoreAsciiCase(cmd.values[1], cmd.where.value))
          /\ cmd.where.operator = "!="
               => (last.out <=> ~EqIgnoreAsciiCase(cmd.values[1], cmd.where.value))
          /\ cmd.where.operator \in {"<", ">", "<=", ">="} => last.out = FALSE

\* "<" on a column declared INT evaluated to false for 1 < 2
C19_Witness ==
    /\ last.op = "where" /\ cmd.columns[1] = <<73, 78, 84>>
    /\ cmd.where.operator = "<"
    /\ cmd.values[1] = <<49>> /\ cmd.where.value = <<50>>
    /\ last.out = FALSE

\* the SELECT names a column, in its projection or in its WHERE clause,
\* that the table does not have
UnknownColumn(table, c) ==
    \/ c.where # NoWhere /\ ColumnIndex(table.columns, c.where.column) = 0
    \/ /\ c.columns # <<(<<42>>)>>
       /\ \E i \in 1..Len(c.columns) : ColumnIndex(table.columns, c.columns[i]) = 0

\* the rows of the table that satisfy WHERE, in stored order, each cut down
\* to the requested columns in the requested order
SelectResult(table, c) ==
    LET kept == SelectSeq(table.rows,
                          LAMBDA row : c.where # NoWhere
                                          => RowMatches(row, table.columns, c.where))
    IN  IF c.columns = <<(<<42>>)>> THEN kept
        ELSE Tup([r \in 1..Len(kept) |->
                    Tup([i \in 1..Len(c.columns) |->
                           kept[r][ColumnIndex(table.columns, c.columns[i])]])])

\* C20: a SELECT on an existing table leaves the catalog and the file
\* unchanged; it returns an error when it names an unknown column and
\* otherwise the matching rows, in stored order, projected on the
\* requested columns
C20_SelectContract ==
    [][(last'.op = "select" /\ find_table(catalog, cmd'.table) # 0)
          => /\ catalog' = catalog /\ file' = file
             /\ IF UnknownColumn(catalog[find_table(catalog, cmd'.table)], cmd')
                THEN last'.kind = "err"
                ELSE /\ last'.kind = "ok"
                     /\ last'.out.rows =
                           SelectResult(catalog[find_table(catalog, cmd'.table)], cmd')]_vars

\* the first 8 bytes of the file as read_page gives them
magic_of(f) == Slice(read_page(f, HEADER_PAGE_ID), 0, 8)

NewDatabaseFile ==
    <<66, 68, 65, 84, 78, 69, 83, 73, 1, 0, 0, 0>> \o Zeros(PAGE_SIZE - 12)

\* C22: opening a file of length 0 leaves exactly the header page of a new
\* database; the load_catalog that follows returns the empty catalog and
\* writes nothing
C22_EmptyFileFormatted ==
    [][/\ (last'.op = "open" /\ Len(file) = 0)
            => (last'.kind = "ok" /\ file' = NewDatabaseFile)
       /\ (last'.op = "load" /\ last.op = "open" /\ file = NewDatabaseFile)
            => (last'.kind = "ok" /\ catalog' = <<>> /\ file' = file)]_vars

\* the load that followed the open of an empty file returned
C22_Witness ==
    /\ last.op = "load" /\ last.kind = "ok"
    /\ ncmds = 0
    /\ file = NewDatabaseFile
    /\ catalog = <<>>

\* the schema pages the next pointers lead through from page_id, up to the
\* first page that does not decode; cyclic when a page comes up again
RECURSIVE ChainWalk(_, _, _, _)
ChainWalk(f, page_id, visited, tables) ==
    IF page_id = 0
    THEN [tables |-> tables, cyclic |-> FALSE, stopped |-> "end", pages |-> visited]
    ELSE IF page_id \in visited
    THEN [tables |-> tables, cyclic |-> TRUE, stopped |-> "cycle", pages |-> visited]
    ELSE Only({ IF r.kind = "some"
                THEN ChainWalk(f, r.next, visited \cup {page_id}, Append(tables, r.table))
                ELSE [tables |-> tables, cyclic |-> FALSE, stopped |-> r.kind,
                      pages |-> visited \cup {page_id}]
              : r \in {read_table_from_page(f, page_id)} })

SchemaChain(f) == ChainWalk(f, schema_root_of(f), {}, <<>>)

Min(a, b) == IF a < b THEN a ELSE b

\* C23: when the schema chain runs into a cycle, load_catalog returns, with
\* every page of the chain decoded at most once: the catalog holds the tables
\* of the pages met before the revisit, as far as table_count asks for them,
\* and table_count is left equal to their number
C23_CycleStopsLoading ==
    [][(last'.op = "load" /\ SchemaChain(file).cyclic)
          => LET chain == SchemaChain(file).tables
                 n == Min(table_count_of(file), Len(chain))
             IN /\ last'.kind = "ok"
                /\ catalog' = SubSeq(chain, 1, n)
                /\ table_count_of(file') = n]_vars

\* a load met a page of a two-page cycle again and repaired the count
C23_Witness ==
    /\ last.op = "load" /\ last.kind = "ok"
    /\ SchemaChain(file).cyclic
    /\ Len(catalog) = 2
    /\ last.out.num_tables = 3
    /\ table_count_of(file) = 2

\* C24: the page allocate_page returns held no byte of the file before the
\* call, whatever the length of the file, and each allocation returns a
\* larger id than the one before it
C24_AllocatedPageUnused ==
    [][last'.op = "allocate"
          => /\ last'.out * PAGE_SIZE >= Len(file)
             /\ (last.op = "allocate" => last'.out > last.out)]_vars

\* an optional sign and then digits only, at least one
IsDecimal(s) ==
    LET digits == IF s # <<>> /\ s[1] \in {43, 45} THEN Tail(s) ELSE s IN
    digits # <<>> /\ \A i \in 1..Len(digits) : IsDigit(digits[i])

RECURSIVE StripZeros(_)
StripZeros(digits) ==
    IF Len(digits) > 1 /\ Head(digits) = 48 THEN StripZeros(Tail(digits)) ELSE digits

\* the decimal text of the integer a decimal literal denotes
CanonicalDecimal(s) ==
    LET magnitude == StripZeros(IF s[1] \in {43, 45} THEN Tail(s) ELSE s) IN
    IF s[1] = 45 /\ magnitude # <<48>> THEN <<45>> \o magnitude ELSE magnitude

\* what a value is to come back as from a column of the given type
RoundTrip(data_type, value) ==
    IF value = <<>> THEN <<>>
    ELSE IF ToUpper(data_type) \in {<<73, 78, 84>>, <<73, 78, 84, 69, 71, 69, 82>>}
            /\ IsDecimal(value)
    THEN CanonicalDecimal(value)
    ELSE value

\* C25: a row that fits in a page is written and loaded back with every
\* empty value empty, every decimal of an INT or INTEGER column in canonical
\* form and every other value unchanged
C25_ValueRoundTrip ==
    [][/\ (/\ last'.op = "save_rows"
            /\ Len(cmd.values) = 1
            /\ EncodedSize(cmd.values[1], cmd.columns) <= RowPageCapacity)
              => last'.kind = "ok"
       /\ (/\ last'.op = "load_rows"
            /\ Len(cmd.values) = 1
            /\ EncodedSize(cmd.values[1], cmd.columns) <= RowPageCapacity)
              => /\ last'.kind = "ok"
                 /\ last'.out = << <<RoundTrip(cmd.columns[1].data_type, cmd.values[1][1]),
                                     RoundTrip(cmd.columns[2].data_type, cmd.values[1][2])>> >>]_vars

\* the row (007, +1) of an INT and a TEXT column came back as (7, +1)
C25_Witness ==
    /\ last.op = "load_rows" /\ last.kind = "ok"
    /\ cmd.columns[1].data_type = <<73, 78, 84>>
    /\ cmd.columns[2].data_type = <<84, 69, 88, 84>>
    /\ cmd.values = << <<(<<48, 48, 55>>), <<43, 49>>>> >>
    /\ last.out = << <<(<<55>>), <<43, 49>>>> >>

\* the number of leading rows whose encodings fit in one row page together
FullyEncoded(rows, columns) ==
    CHOOSE k \in 0..Len(rows) :
        /\ RowsSize(SubSeq(rows, 1, k), columns) <= RowPageCapacity
        /\ (k = Len(rows) \/ RowsSize(SubSeq(rows, 1, k + 1), columns) > RowPageCapacity)

\* C26: the row_count stored in a row page is the number of rows encoded in
\* it in full; a row with a field that did not fit is not counted
C26_RowCountIsRowsEncoded ==
    [][(last'.op = "save_rows" /\ last'.kind = "ok")
          => U32At(read_page(file', last'.out), 0) = FullyEncoded(cmd.values, cmd.columns)]_vars

\* C27: a successful INSERT or UPDATE leaves the header's schema_root and
\* table_count as they were: it creates no schema page
C27_DataWritesKeepHeader ==
    [][(last'.op \in {"insert", "update"} /\ last'.kind = "ok")
          => /\ schema_root_of(file') = schema_root_of(file)
             /\ table_count_of(file') = table_count_of(file)]_vars

\* C28: when load_catalog comes to a schema page that does not decode, it
\* returns the tables of the pages before it and leaves their number in
\* table_count
C28_InvalidPageEndsChain ==
    [][(/\ last'.op = "load"
        /\ schema_root_of(file) # 0
        /\ SchemaChain(file).stopped \in {"none", "err"}
        /\ Len(SchemaChain(file).tables) < table_count_of(file))
          => /\ last'.kind = "ok"
             /\ catalog' = SchemaChain(file).tables
             /\ table_count_of(file') = Len(SchemaChain(file).tables)]_vars

\* C29: the load_catalog that follows the open of a file with magic 0
\* returns the empty catalog
C29_ZeroMagicLoadsNothing ==
    [][(last'.op = "load" /\ Len(file) > 0 /\ magic_of(file) = <<0, 0, 0, 0, 0, 0, 0, 0>>)
          => (last'.kind = "ok" /\ catalog' = <<>>)]_vars

RECURSIVE RowsBeforeFailure(_, _, _, _, _)
\* the rows of a page up to the first row that does not decode in full
RowsBeforeFailure(page, offset, n, columns, rows) ==
    IF n = 0 THEN rows
    ELSE Only({ IF r.kind # "err" /\ Len(r.values) = Len(columns)
                THEN RowsBeforeFailure(page, r.offset, n - 1, columns, Append(rows, r.values))
                ELSE rows
              : r \in {ReadRowValues(page, offset, columns, 1, <<>>)} })

\* C30: the rows decoded from a row page are the rows before the first one
\* that fails a bounds check: nothing is decoded from the page after it
C30_PageAbandonedAtFailure ==
    [][last'.op = "load_rows"
          => \A page \in {read_page(file, last.out)} :
               ReadRows(page, 4, U32At(page, 0), cmd.columns, <<>>).rows
                 = RowsBeforeFailure(page, 4, U32At(page, 0), cmd.columns, <<>>)]_vars

\* C31: a load_catalog that changes schema_root or table_count in the header
\* warns
C31_RepairsWarn ==
    [][(/\ last'.op = "load"
        /\ \/ schema_root_of(file') # schema_root_of(file)
           \/ table_count_of(file') # table_count_of(file))
          => last'.warned]_vars

\* C32: load_catalog on a header with table_count 0 and a schema_root zeroes
\* the 8 bytes of schema_root, on a header with schema_root 0 and a
\* table_count the 4 bytes of table_count; it writes no other byte of the
\* file and returns the empty catalog
C32_HeaderRepairs ==
    [][/\ (last'.op = "load" /\ table_count_of(file) = 0 /\ schema_root_of(file) # 0)
            => /\ last'.kind = "ok" /\ catalog' = <<>>
               /\ file' = SubSeq(file, 1, 12) \o <<0, 0, 0, 0, 0, 0, 0, 0>>
                             \o SubSeq(file, 21, Len(file))
       /\ (last'.op = "load" /\ schema_root_of(file) = 0 /\ table_count_of(file) # 0)
            => /\ last'.kind = "ok" /\ catalog' = <<>>
               /\ file' = SubSeq(file, 1, 20) \o <<0, 0, 0, 0>>
                             \o SubSeq(file, 25, Len(file))]_vars

\* a load zeroed the schema_root of a header that counted no table, in a
\* file that holds a table page
C32_Witness ==
    /\ last.op = "load" /\ last.kind = "ok"
    /\ last.out.num_tables = 0 /\ last.out.schema_root # 0
    /\ schema_root_of(file) = 0 /\ table_count_of(file) = 0
    /\ Len(file) > PAGE_SIZE
    /\ catalog = <<>>

\* C34: load_catalog returns on every file
C34_LoadTerminates ==
    [][last'.op = "load" => last'.kind # "hang"]_vars

\* C36: a CREATE TABLE, INSERT or UPDATE that returns an error leaves the
\* catalog in memory as it was before the command
C36_FailedCommandKeepsCatalog ==
    [][(last'.op \in {"create", "insert", "update"} /\ last'.kind = "err")
          => catalog' = catalog]_vars

\* C38: from an empty file on, the file is a positive number of whole pages
\* after every operation, and no operation makes it shorter
C38_WholePagesOnly ==
    /\ [](last.op # "none" => (Len(file) > 0 /\ Len(file) % PAGE_SIZE = 0))
    /\ [][Len(file') >= Len(file)]_vars

\* a command has grown the file past the pages the first CREATE TABLE wrote
C38_Witness ==
    /\ last.op \in {"insert", "update"} /\ last.kind = "ok"
    /\ Len(file) > 3 * PAGE_SIZE
    /\ Len(file) % PAGE_SIZE = 0

RECURSIVE PatchChain(_, _, _)
\* the pages save_table walks to find the last schema page
PatchChain(f, page_id, visited) ==
    IF page_id = 0 \/ page_id \in visited THEN visited
    ELSE PatchChain(f, U64At(read_page(f, page_id), NextPointerOffsetOnPatch),
                    visited \cup {page_id})

\* every page a schema chain of the file leads to
SchemaPageSet(f) ==
    SchemaChain(f).pages \cup PatchChain(f, schema_root_of(f), {})

\* the data_page_id stored in a schema page
data_page_id_of(f, page_id) ==
    Only({ U64At(page, SkipColumns(page, 8 + U32At(page, 0), U32At(page, 4 + U32At(page, 0))))
         : page \in {read_page(f, page_id)} })

RECURSIVE RowPageSet(_, _, _, _)
\* every page the row chain from page_id leads to
RowPageSet(f, page_id, columns, visited) ==
    IF page_id \in visited THEN visited
    ELSE Only({
        IF page = NewPage \/ U32At(page, 0) = 0 THEN visited \cup {page_id}
        ELSE Only({
            IF rr.kind = "err" \/ rr.offset + 8 > PAGE_SIZE \/ U64At(page, rr.offset) = 0
            THEN visited \cup {page_id}
            ELSE RowPageSet(f, U64At(page, rr.offset), columns, visited \cup {page_id})
          : rr \in {ReadRows(page, 4, U32At(page, 0), columns, <<>>)} })
      : page \in {read_page(f, page_id)} })

\* the row pages of the table of schema page page_id
RowPagesOf(f, page_id) ==
    Only({ IF r.kind = "some"
           THEN RowPageSet(f, data_page_id_of(f, page_id), r.table.columns, {})
           ELSE {}
         : r \in {read_table_from_page(f, page_id)} })

Interrupted == expected[1]

\* the file as the command would have left it with all its writes made
Completed(e) == IF e.files = <<>> THEN e.before ELSE e.files[Len(e.files)]

\* what a load can return after an interrupted CREATE TABLE: the tables the
\* file held before, or those and the new table
RecoveredCatalogs(e) ==
    {load_catalog(e.before).catalog, Append(load_catalog(e.before).catalog, e.table)}

\* the rows a catalog holds for a name, or that it has no such table
TableState(tables, name) ==
    IF find_table(tables, name) = 0 THEN [present |-> FALSE, rows |-> <<>>]
    ELSE [present |-> TRUE, rows |-> tables[find_table(tables, name)].rows]

\* C33: when CREATE TABLE is interrupted after any number of its page
\* writes, the next load returns without error either exactly the tables
\* loadable before the command or those and the new table; table_count is
\* raised by the last page write only.
C33_CreateTableRecovery ==
    /\ [][(last'.op = "load" /\ expected # <<>> /\ Interrupted.op = "create")
           => (last'.kind = "ok" /\ catalog' \in RecoveredCatalogs(Interrupted))]_vars
    /\ []((last.op = "crash" /\ Interrupted.op = "create")
           => table_count_of(file) =
                IF Interrupted.kind = "ok" /\ Interrupted.k = Len(Interrupted.files)
                THEN table_count_of(Interrupted.before) + 1
                ELSE table_count_of(Interrupted.before))

\* C35: update_table_data has written every newly allocated row page before
\* it overwrites the head row page, and overwrites no other page that
\* existed than the head row page and the schema page; after an interrupted
\* INSERT or UPDATE the next load returns for the table the rows before the
\* command or the rows after it.
C35_RowRewriteRecovery ==
    /\ [][(last'.op = "load" /\ expected # <<>>
            /\ Interrupted.op \in {"insert", "update"} /\ Interrupted.kind = "ok")
           => TableState(catalog', Interrupted.table.name)
                \in {TableState(load_catalog(Interrupted.before).catalog,
                                Interrupted.table.name),
                     TableState(load_catalog(Completed(Interrupted)).catalog,
                                Interrupted.table.name)}]_vars
    /\ []((/\ last.op = "crash"
           /\ Interrupted.op \in {"insert", "update"}
           /\ Interrupted.kind = "ok"
           /\ find_table_schema_page(Interrupted.before, Interrupted.table.name).id # 0)
           => LET before == Interrupted.before
                  schema == find_table_schema_page(before, Interrupted.table.name).id
                  head == data_page_id_of(before, schema)
                  old == Len(before) \div PAGE_SIZE
                  new == Len(Completed(Interrupted)) \div PAGE_SIZE
              IN /\ \A p \in 0..(old - 1) :
                       p \notin {schema, head} => read_page(file, p) = read_page(before, p)
                 /\ read_page(file, head) # read_page(before, head)
                      => /\ Len(file) = Len(Completed(Interrupted))
                         /\ \A p \in old..(new - 1) :
                               read_page(file, p) = read_page(Completed(Interrupted), p))

\* an INSERT that needs a second row page, cut after the new page was
\* written and before the head page was, and loaded: the rows are the old
C35_Witness ==
    /\ last.op = "load"
    /\ expected # <<>>
    /\ Interrupted.op = "insert"
    /\ Interrupted.kind = "ok"
    /\ Len(Interrupted.files) = 4
    /\ Interrupted.k = 2
    /\ TableState(catalog, Interrupted.table.name)
         = TableState(load_catalog(Interrupted.before).catalog, Interrupted.table.name)
    /\ TableState(catalog, Interrupted.table.name)
         # TableState(load_catalog(Completed(Interrupted)).catalog, Interrupted.table.name)
====
